---- MODULE Spec2Model ----
(***************************************************************************)
(* A model of the agent layer of career-navigator-backend (src/graph.py): *)
(* the LLM gateway safe_llm_invoke with its provider fallback chain, the   *)
(* ThreadSafeMemoryStore, the agents built on them and the LaTeX fixer.    *)
(*                                                                         *)
(* Texts are sequences of tokens.  A token is a one-character string       *)
(* (" " is whitespace, "!" stands for the warning sign that prefixes the   *)
(* error replies, "a" for any other character) or a word that stands for   *)
(* a fixed literal of the source.                                          *)
(***************************************************************************)
EXTENDS Integers, Sequences, FiniteSets, TLC

VARIABLES
    llm_phase,   \* "called" while a safe_llm_invoke call is pending, then "returned"
    llm_in,      \* the arguments and the provider behaviour of that call
    llm_out,     \* what the call gave back to its caller
    heap,        \* the list objects ever created by a store, by object id
    store,       \* ThreadSafeMemoryStore._store: thread id -> object id, 0 when absent
    lock,        \* ThreadSafeMemoryStore._lock: the worker holding it, 0 when free
    pc,          \* where each worker is inside append
    wargs,       \* the arguments of each worker's current append call
    calls,       \* append calls made so far
    issued,      \* per thread id, the entries passed to append, in call order
    log,         \* per thread id, the entries in the order line 43 inserted them
    mem_cfg,     \* the workers that exist and the calls they may make
    rd,          \* a caller of get: the list it was handed and what it saw in it
    fx_phase,    \* "given" while fix_latex_syntax has an argument to work on, then "done"
    fx_in,       \* the markup handed to fix_latex_syntax
    fx_once,     \* fix_latex_syntax(fx_in)
    fx_twice,    \* fix_latex_syntax(fix_latex_syntax(fx_in))
    ag_phase,    \* "idle" before the first agent call, "returned" after one
    ag_last,     \* the last agent call: its arguments, its prompts, the gateway's answers
    ag_out,      \* what that call returned
    ag_mem,      \* the contents of the object the module name memory_store is bound to
    ag_done,     \* per thread, the exchanges learning_agent reached line 755 with
    ag_count,    \* agent calls made so far
    vl_phase,    \* "given" while is_valid_latex has an argument to judge, then "done"
    vl_in,       \* the argument handed to is_valid_latex
    vl_out,      \* what is_valid_latex returned
    gr_node,     \* the node of the compiled graph a run is at
    gr_msg,      \* the message of the incoming state
    gr_intent,   \* the value of the state's key "intent"
    gr_path,     \* the nodes the run has executed, in order
    mj_phase,    \* "given" while match_jobs has arguments to work on, then "done"
    mj_in,       \* the skills and the job postings handed to match_jobs
    mj_out,      \* the list match_jobs returned
    rq,          \* the HTTP requests to /api/career and /api/learning, by arrival
    arrived,     \* how many requests have arrived
    db_saved,    \* the rows of table saved_jobs
    db_chats,    \* the rows of career_chat_history and learning_chat_history
    db_next,     \* per table, the id AUTOINCREMENT gives the next row
    db_last,     \* the last database request and its response
    ar_phase,    \* "given" while analyze_resume has a text to work on, then "done"
    ar_text,     \* the resume text handed to analyze_resume, word by word
    ar_out,      \* what analyze_resume returned
    tx_phase,    \* "given" while the Restructure branch holds generated markup, then "done"
    tx_in,       \* the markup generate_latex_with_ai returned
    tx_out,      \* the markup written to the .tex file
    rs_req,      \* per Restructure request: where it is, its base name, pdf_generated
    rs_drawn,    \* the tokens uuid4 has handed out
    rs_files     \* the files written, compiled and returned so far, and by whom

llm_vars == <<llm_phase, llm_in, llm_out>>

fx_vars == <<fx_phase, fx_in, fx_once, fx_twice>>

ag_vars == <<ag_phase, ag_last, ag_out, ag_mem, ag_done, ag_count>>

vl_vars == <<vl_phase, vl_in, vl_out>>

gr_vars == <<gr_node, gr_msg, gr_intent, gr_path>>

mj_vars == <<mj_phase, mj_in, mj_out>>

api_vars == <<rq, arrived>>

db_vars == <<db_saved, db_chats, db_next, db_last>>

ar_vars == <<ar_phase, ar_text, ar_out>>

tx_vars == <<tx_phase, tx_in, tx_out>>

rs_vars == <<rs_req, rs_drawn, rs_files>>

mem_vars == <<heap, store, lock, pc, wargs, calls, issued, log, mem_cfg, rd>>

-----------------------------------------------------------------------------
(* Texts *)

SP == " "
WARN == "!"
Char == {SP, "a", WARN}

\* Longest provider-generated text the model enumerates.
MaxContentLen == 1

SeqsUpTo(S, n) == UNION {[1..k -> S] : k \in 0..n}

Contents == SeqsUpTo(Char, MaxContentLen)

RECURSIVE LStrip(_)
LStrip(s) == IF s # <<>> /\ Head(s) = SP THEN LStrip(Tail(s)) ELSE s

RECURSIVE RStrip(_)
RStrip(s) == IF s # <<>> /\ s[Len(s)] = SP THEN RStrip(SubSeq(s, 1, Len(s) - 1)) ELSE s

\* str.strip(): leading and trailing whitespace removed.  (The argument is
\* bound through a singleton set so that it is evaluated once.)
Strip(s) == CHOOSE r \in {RStrip(LStrip(v)) : v \in {s}} : TRUE

\* Python truthiness of a str: non-empty.
Truthy(s) == s # <<>>

IsBlank(s) == \A i \in 1..Len(s) : s[i] = SP

-----------------------------------------------------------------------------
(* The LLM gateway: safe_llm_invoke and enhanced_fallback_response *)

\* The keyword groups enhanced_fallback_response tests, in the order it tests them.
KwClass == {"career", "sql", "python", "javascript", "learn"}

\* A prompt is described by the keyword groups that occur in its first 4000
\* characters (kw), those that occur only after them (tailkw), and whether
\* it is longer than 4000 characters (long).
PromptKwSets == {{}} \cup {{k} : k \in KwClass} \cup {{"career", "learn"}}

Prompts ==
    {[kw |-> k, tailkw |-> {}, long |-> FALSE] : k \in PromptKwSets}
    \cup {[kw |-> k, tailkw |-> t, long |-> TRUE] :
            k \in PromptKwSets, t \in {{}, {"career"}}}

\* prompt[:4000] + "... [truncated]": the tail is cut away, the marker holds no keyword.
Truncate(prompt) ==
    IF prompt.long THEN [kw |-> prompt.kw, tailkw |-> {}, long |-> FALSE] ELSE prompt

FB_CAREER == <<"fb_career">>
FB_SQL == <<"fb_sql">>
FB_PYTHON == <<"fb_python">>
FB_JAVASCRIPT == <<"fb_javascript">>
FB_LEARN == <<"fb_learn">>
FB_GENERIC == <<"fb_generic">>

FallbackTexts == {FB_CAREER, FB_SQL, FB_PYTHON, FB_JAVASCRIPT, FB_LEARN, FB_GENERIC}

enhanced_fallback_response(prompt) ==
    IF "career" \in prompt.kw THEN FB_CAREER
    ELSE IF "sql" \in prompt.kw THEN FB_SQL
    ELSE IF "python" \in prompt.kw THEN FB_PYTHON
    ELSE IF "javascript" \in prompt.kw THEN FB_JAVASCRIPT
    ELSE IF "learn" \in prompt.kw THEN FB_LEARN
    ELSE FB_GENERIC

\* The timeouts the call sites pass: chitchat, learning_agent, the default.
Timeouts == {10, 15, 30}

\* How long one requests.post may take: it answers at once or uses its whole timeout.
Durations(timeout) == {0, timeout}

\* What the OpenRouter request does: requests.post raises ("exc": transport
\* error or timeout), answers with a status other than 200, answers 200 with a
\* body the indexing chain cannot read ("malformed"), or answers 200 with a
\* message content.
PrimaryOutcomes(C, timeout) ==
    {[kind |-> k, content |-> <<>>, dur |-> d] :
        k \in {"exc", "non200", "malformed"}, d \in Durations(timeout)}
    \cup {[kind |-> "ok", content |-> c, dur |-> d] :
        c \in C, d \in Durations(timeout)}

\* What the Hugging Face request does; "notlist" is a 200 whose JSON is no
\* non-empty list.  An "ok" answer carries generated_text: the body, after the
\* echoed prompt when echo holds.
SecondaryOutcomes(C, timeout) ==
    {[kind |-> k, body |-> <<>>, echo |-> FALSE, dur |-> d] :
        k \in {"exc", "non200", "malformed", "notlist"}, d \in Durations(timeout)}
    \cup {[kind |-> "ok", body |-> c, echo |-> e, dur |-> d] :
        c \in C, e \in BOOLEAN, d \in Durations(timeout)}

NoSecondary == [kind |-> "exc", body |-> <<>>, echo |-> FALSE, dur |-> 0]

\* The environment of one call: the two providers and whether HF_API_KEY is
\* set.  C is the set of texts a provider may generate.
Envs(C, timeout) ==
    {[p1 |-> a, hfkey |-> FALSE, p2 |-> NoSecondary] : a \in PrimaryOutcomes(C, timeout)}
    \cup {[p1 |-> a, hfkey |-> TRUE, p2 |-> b] :
        a \in PrimaryOutcomes(C, timeout), b \in SecondaryOutcomes(C, timeout)}

\* A handler "except requests.RequestException" would let a parsing error through.
CatchesTransportOnly(exc) == exc = "transport"

\* "except Exception" (lines 134, 157, 163): every error class is caught.
CatchesException(exc) == exc \in {"transport", "parse"}

\* Lines 112-132, the body of the first inner try.
\* exit: "return" the text, fall through to the "next" option, or "raise".
OpenRouterBody(env) ==
    CASE env.p1.kind = "exc" -> [exit |-> "raise", exc |-> "transport", text |-> <<>>]
      [] env.p1.kind = "non200" -> [exit |-> "next", exc |-> "none", text |-> <<>>]
      [] env.p1.kind = "malformed" -> [exit |-> "raise", exc |-> "parse", text |-> <<>>]
      [] env.p1.kind = "ok" ->
            [exit |-> "return", exc |-> "none", text |-> Strip(env.p1.content)]

\* generated_text.replace(prompt, ''): the echoed prompt is removed.
ReplacePrompt(p2) == p2.body

\* Lines 139-155, the body of the second inner try.
HuggingFaceBody(env) ==
    IF ~env.hfkey THEN [exit |-> "next", exc |-> "none", text |-> <<>>]
    ELSE CASE env.p2.kind = "exc" -> [exit |-> "raise", exc |-> "transport", text |-> <<>>]
           [] env.p2.kind = "non200" -> [exit |-> "next", exc |-> "none", text |-> <<>>]
           [] env.p2.kind = "malformed" -> [exit |-> "raise", exc |-> "parse", text |-> <<>>]
           [] env.p2.kind = "notlist" -> [exit |-> "next", exc |-> "none", text |-> <<>>]
           [] env.p2.kind = "ok" ->
                LET text == Strip(ReplacePrompt(env.p2))
                IN  IF Truthy(text)
                    THEN [exit |-> "return", exc |-> "none", text |-> text]
                    ELSE [exit |-> "next", exc |-> "none", text |-> <<>>]

\* A try block with its "except Exception" handler, whose body only logs.
TryExcept(body) ==
    IF body.exit = "raise" /\ CatchesException(body.exc)
    THEN [exit |-> "next", exc |-> "none", text |-> <<>>]
    ELSE body

SecondaryTime(env) == IF env.hfkey THEN env.p2.dur ELSE 0

SecondaryTried(env) == IF env.hfkey THEN <<"primary", "secondary">> ELSE <<"primary">>

\* safe_llm_invoke(prompt, timeout) under the provider behaviour env.
\* raised: an exception left the function; text: the returned string;
\* source: which option produced it; tried: the requests made, in order;
\* elapsed: the time spent in them.
safe_llm_invoke(prompt, timeout, env) ==
    LET p == Truncate(prompt)
        r1 == TryExcept(OpenRouterBody(env))
        r2 == TryExcept(HuggingFaceBody(env))
        inner ==
            IF r1.exit # "next"
            THEN [exit |-> r1.exit, exc |-> r1.exc, text |-> r1.text,
                  source |-> "primary", tried |-> <<"primary">>,
                  elapsed |-> env.p1.dur]
            ELSE IF r2.exit # "next"
            THEN [exit |-> r2.exit, exc |-> r2.exc, text |-> r2.text,
                  source |-> "secondary", tried |-> SecondaryTried(env),
                  elapsed |-> env.p1.dur + SecondaryTime(env)]
            ELSE [exit |-> "return", exc |-> "none",
                  text |-> enhanced_fallback_response(p),
                  source |-> "fallback", tried |-> SecondaryTried(env),
                  elapsed |-> env.p1.dur + SecondaryTime(env)]
    IN  IF inner.exit = "raise"
        THEN IF CatchesException(inner.exc)
             THEN [raised |-> FALSE, text |-> enhanced_fallback_response(p),
                   source |-> "fallback", tried |-> inner.tried,
                   elapsed |-> inner.elapsed]
             ELSE [raised |-> TRUE, text |-> <<>>, source |-> "none",
                   tried |-> inner.tried, elapsed |-> inner.elapsed]
        ELSE [raised |-> FALSE, text |-> inner.text, source |-> inner.source,
              tried |-> inner.tried, elapsed |-> inner.elapsed]

NoResult == [raised |-> FALSE, text |-> <<>>, source |-> "none", tried |-> <<>>, elapsed |-> 0]

\* A caller has called safe_llm_invoke; the providers' behaviour is the environment's.
LLMInit ==
    /\ llm_phase = "called"
    /\ \E t \in Timeouts, p \in Prompts :
         \E e \in Envs(Contents, t) : llm_in = [prompt |-> p, timeout |-> t, env |-> e]
    /\ llm_out = NoResult

\* The call runs to its end.
LLMInvoke ==
    /\ llm_phase = "called"
    /\ llm_out' = safe_llm_invoke(llm_in.prompt, llm_in.timeout, llm_in.env)
    /\ llm_phase' = "returned"
    /\ UNCHANGED llm_in
    /\ UNCHANGED <<mem_vars, fx_vars, ag_vars, vl_vars, gr_vars, mj_vars, api_vars, db_vars, ar_vars, tx_vars, rs_vars>>

-----------------------------------------------------------------------------
(* ThreadSafeMemoryStore *)

ThreadIds == {"t1", "t2"}

\* The cap of lines 45-46.
MaxMem == 10

\* Append calls a single caller makes in MemSpec.
MaxSeqAppends == 11

\* Append calls the concurrent workers make in ConcSpec, after the prefill.
MaxConcAppends == 3

\* The worker threads: ThreadPoolExecutor(max_workers=3).
NumWorkers == 3

Workers == 1..NumWorkers

Last(s, n) == IF Len(s) <= n THEN s ELSE SubSeq(s, Len(s) - n + 1, Len(s))

\* A slice that keeps the oldest entries instead of the newest.
KeepFirst(s) == SubSeq(s, 1, MaxMem)

\* self._store[thread_id][-10:]
KeepLast(s) == Last(s, MaxMem)

\* The list thread id t maps to; get's default when t is absent.
ListOf(t) == IF store[t] = 0 THEN <<>> ELSE heap[store[t]]

\* An append that never waits for the lock.
NoLock(w) == TRUE

\* "with self._lock": the RLock is free or already held by the caller.
CanAcquire(w) == lock = 0 \/ lock = w

IdleReader == [pc |-> "idle", tid |-> "t1", ref |-> 0, seen |-> 0]

MemIdle ==
    /\ lock = 0
    /\ pc = [w \in Workers |-> "idle"]
    /\ wargs = [w \in Workers |-> [tid |-> "t1", val |-> 0]]
    /\ rd = IdleReader

\* A store on which one caller has already appended n entries to t1.
MemAfter(n) ==
    /\ calls = n
    /\ issued = [t \in ThreadIds |-> IF t = "t1" THEN [i \in 1..n |-> i] ELSE <<>>]
    /\ log = issued
    /\ heap = IF n = 0 THEN <<>> ELSE <<[i \in 1..n |-> i]>>
    /\ store = [t \in ThreadIds |-> IF t = "t1" /\ n > 0 THEN 1 ELSE 0]

\* memory_store = ThreadSafeMemoryStore(): an empty store, used by one caller.
MemInit ==
    /\ MemIdle
    /\ MemAfter(0)
    /\ mem_cfg = [workers |-> {1}, limit |-> MaxSeqAppends, prefill |-> 0]

\* A store shared by the worker threads, empty or already holding up to the
\* cap on t1.
ConcInit ==
    /\ MemIdle
    /\ \E n \in {0, MaxMem - 1, MaxMem} :
         /\ MemAfter(n)
         /\ mem_cfg = [workers |-> Workers, limit |-> n + MaxConcAppends, prefill |-> n]

\* A worker calls append(t, v); the entry is the number of the call.
Begin(w, t) ==
    /\ w \in mem_cfg.workers
    /\ pc[w] = "idle"
    /\ calls < mem_cfg.limit
    /\ calls' = calls + 1
    /\ wargs' = [wargs EXCEPT ![w] = [tid |-> t, val |-> calls + 1]]
    /\ issued' = [issued EXCEPT ![t] = Append(@, calls + 1)]
    /\ pc' = [pc EXCEPT ![w] = "acquire"]
    /\ UNCHANGED <<heap, store, lock, log, mem_cfg, rd>>
    /\ UNCHANGED <<llm_vars, fx_vars, ag_vars, vl_vars, gr_vars, mj_vars, api_vars, db_vars, ar_vars, tx_vars, rs_vars>>

\* Line 40.
Acquire(w) ==
    /\ pc[w] = "acquire"
    /\ CanAcquire(w)
    /\ lock' = w
    /\ pc' = [pc EXCEPT ![w] = "test"]
    /\ UNCHANGED <<heap, store, wargs, calls, issued, log, mem_cfg, rd>>
    /\ UNCHANGED <<llm_vars, fx_vars, ag_vars, vl_vars, gr_vars, mj_vars, api_vars, db_vars, ar_vars, tx_vars, rs_vars>>

\* Line 41.
TestAbsent(w) ==
    /\ pc[w] = "test"
    /\ pc' = [pc EXCEPT ![w] = IF store[wargs[w].tid] = 0 THEN "create" ELSE "insert"]
    /\ UNCHANGED <<heap, store, lock, wargs, calls, issued, log, mem_cfg, rd>>
    /\ UNCHANGED <<llm_vars, fx_vars, ag_vars, vl_vars, gr_vars, mj_vars, api_vars, db_vars, ar_vars, tx_vars, rs_vars>>

\* Line 42.
Create(w) ==
    /\ pc[w] = "create"
    /\ heap' = Append(heap, <<>>)
    /\ store' = [store EXCEPT ![wargs[w].tid] = Len(heap) + 1]
    /\ pc' = [pc EXCEPT ![w] = "insert"]
    /\ UNCHANGED <<lock, wargs, calls, issued, log, mem_cfg, rd>>
    /\ UNCHANGED <<llm_vars, fx_vars, ag_vars, vl_vars, gr_vars, mj_vars, api_vars, db_vars, ar_vars, tx_vars, rs_vars>>

\* Line 43: list.append changes the list object in place.
Insert(w) ==
    /\ pc[w] = "insert"
    /\ heap' = [heap EXCEPT ![store[wargs[w].tid]] = Append(@, wargs[w].val)]
    /\ log' = [log EXCEPT ![wargs[w].tid] = Append(@, wargs[w].val)]
    /\ pc' = [pc EXCEPT ![w] = "trim"]
    /\ UNCHANGED <<store, lock, wargs, calls, issued, mem_cfg, rd>>
    /\ UNCHANGED <<llm_vars, fx_vars, ag_vars, vl_vars, gr_vars, mj_vars, api_vars, db_vars, ar_vars, tx_vars, rs_vars>>

\* Lines 45-46: the slice is a new list object, the key is bound to it.
Trim(w) ==
    /\ pc[w] = "trim"
    /\ IF Len(ListOf(wargs[w].tid)) > MaxMem
       THEN /\ heap' = Append(heap, KeepLast(ListOf(wargs[w].tid)))
            /\ store' = [store EXCEPT ![wargs[w].tid] = Len(heap) + 1]
       ELSE UNCHANGED <<heap, store>>
    /\ pc' = [pc EXCEPT ![w] = "release"]
    /\ UNCHANGED <<lock, wargs, calls, issued, log, mem_cfg, rd>>
    /\ UNCHANGED <<llm_vars, fx_vars, ag_vars, vl_vars, gr_vars, mj_vars, api_vars, db_vars, ar_vars, tx_vars, rs_vars>>

\* The end of the with block; append returns.
Release(w) ==
    /\ pc[w] = "release"
    /\ lock' = 0
    /\ pc' = [pc EXCEPT ![w] = "idle"]
    /\ UNCHANGED <<heap, store, wargs, calls, issued, log, mem_cfg, rd>>
    /\ UNCHANGED <<llm_vars, fx_vars, ag_vars, vl_vars, gr_vars, mj_vars, api_vars, db_vars, ar_vars, tx_vars, rs_vars>>

\* get(t, []) (lines 31-33), run under the lock: the caller is handed the list
\* object itself, not a copy.
Get(t) ==
    /\ rd.pc = "idle"
    /\ lock = 0
    /\ rd' = [pc |-> "holding", tid |-> t, ref |-> store[t], seen |-> Len(ListOf(t))]
    /\ UNCHANGED <<heap, store, lock, pc, wargs, calls, issued, log, mem_cfg>>
    /\ UNCHANGED <<llm_vars, fx_vars, ag_vars, vl_vars, gr_vars, mj_vars, api_vars, db_vars, ar_vars, tx_vars, rs_vars>>

\* The caller reads the list it was handed (as line 728 does), without the lock.
ReadHeld ==
    /\ rd.pc = "holding"
    /\ rd' = [rd EXCEPT !.pc = "idle",
                        !.seen = IF rd.ref = 0 THEN 0 ELSE Len(heap[rd.ref])]
    /\ UNCHANGED <<heap, store, lock, pc, wargs, calls, issued, log, mem_cfg>>
    /\ UNCHANGED <<llm_vars, fx_vars, ag_vars, vl_vars, gr_vars, mj_vars, api_vars, db_vars, ar_vars, tx_vars, rs_vars>>

MemNext ==
    \/ \E w \in Workers, t \in ThreadIds : Begin(w, t)
    \/ \E w \in Workers : Acquire(w)
    \/ \E w \in Workers : TestAbsent(w)
    \/ \E w \in Workers : Create(w)
    \/ \E w \in Workers : Insert(w)
    \/ \E w \in Workers : Trim(w)
    \/ \E w \in Workers : Release(w)
    \/ \E t \in ThreadIds : Get(t)
    \/ ReadHeld

-----------------------------------------------------------------------------
(* The LaTeX sanitizer: fix_latex_syntax *)

\* Markup is a sequence of tokens: the backslash, the two braces, the words
\* the patterns name, and "x" for any other character.
BS == "\\"
LB == "{"
RB == "}"
LatexTok == {BS, LB, RB, "begin", "end", "x"}

\* Longest markup the model enumerates.
MaxLatexLen == 4

MatchAt(s, i, pat) ==
    /\ i + Len(pat) - 1 <= Len(s)
    /\ \A k \in 1..Len(pat) : s[i + k - 1] = pat[k]

\* Python's substitution scan over positions lo..hi of s.  M holds the
\* positions where the pattern matches and n is the pattern's length; skip is
\* the number of positions still covered by the last occurrence replaced.  The
\* occurrences are taken left to right in the original string and do not
\* overlap.  The range is halved at every step, the left half's skip count
\* handed to the right half.
RECURSIVE Scan(_, _, _, _, _, _, _)
Scan(s, M, n, rep, lo, hi, skip) ==
    IF lo > hi THEN [out |-> <<>>, skip |-> skip]
    ELSE IF lo = hi
    THEN IF skip > 0 THEN [out |-> <<>>, skip |-> skip - 1]
         ELSE IF lo \in M THEN [out |-> rep, skip |-> n - 1]
         ELSE [out |-> <<s[lo]>>, skip |-> 0]
    ELSE CHOOSE res \in UNION {
             {[out |-> l.out \o r.out, skip |-> r.skip] :
                 r \in {Scan(s, M, n, rep, ((lo + hi) \div 2) + 1, hi, l.skip)}} :
                 l \in {Scan(s, M, n, rep, lo, (lo + hi) \div 2, skip)}} : TRUE

\* str.replace(pat, rep), and re.sub of a literal pattern.  (The argument is
\* bound through a singleton set so that it is evaluated once.)
ReplaceAll(s, pat, rep) ==
    CHOOSE res \in {Scan(v, {i \in 1..Len(v) : MatchAt(v, i, pat)}, Len(pat), rep,
                         1, Len(v), 0).out : v \in {s}} : TRUE

\* re.sub(r'(?<!\\)word\{', r'\\word{', s): a backslash is put before every
\* "word{" that has none before it.
AddBackslash(s, word) ==
    CHOOSE res \in {Scan(v, {i \in 1..Len(v) : /\ MatchAt(v, i, <<word, LB>>)
                                               /\ (i = 1 \/ v[i - 1] # BS)},
                         2, <<BS, word, LB>>, 1, Len(v), 0).out : v \in {s}} : TRUE

\* Line 405: .replace(r'\{', '{').replace(r'\}', '}')
UnescapeBraces(s) == ReplaceAll(ReplaceAll(s, <<BS, LB>>, <<LB>>), <<BS, RB>>, <<RB>>)

\* Lines 408-419: substitutions whose replacement spells the pattern again.
SamePatternSubs(s) ==
    LET a == ReplaceAll(s, <<BS, "begin", LB>>, <<BS, "begin", LB>>)
        b == ReplaceAll(a, <<BS, "end", LB>>, <<BS, "end", LB>>)
    IN  b

fix_latex_syntax(latex_code) ==
    IF latex_code = <<>> THEN <<>>
    ELSE AddBackslash(AddBackslash(SamePatternSubs(UnescapeBraces(latex_code)), "begin"),
                      "end")

FixInit ==
    /\ fx_phase = "given"
    /\ \E n \in 0..MaxLatexLen : \E x \in [1..n -> LatexTok] : fx_in = x
    /\ fx_once = <<>>
    /\ fx_twice = <<>>

\* The fixer is applied, and applied again to its own output.
FixApply ==
    /\ fx_phase = "given"
    /\ fx_once' = fix_latex_syntax(fx_in)
    /\ fx_twice' = fix_latex_syntax(fix_latex_syntax(fx_in))
    /\ fx_phase' = "done"
    /\ UNCHANGED fx_in
    /\ UNCHANGED <<llm_vars, mem_vars, ag_vars, vl_vars, gr_vars, mj_vars, api_vars, db_vars, ar_vars, tx_vars, rs_vars>>

-----------------------------------------------------------------------------
(* The LaTeX validator, the template and the markup steps of career_agent *)

\* None passed where a str is expected.
NoneArg == [kind |-> "none", text |-> <<>>]

Contains(s, pat) == \E v \in {s} : \E i \in 1..Len(v) : MatchAt(v, i, pat)

StartsWith(s, pat) == MatchAt(s, 1, pat)

DOCCLASS == <<BS, "documentclass">>
BEGIN_DOC == <<BS, "begin", LB, "document", RB>>
END_DOC == <<BS, "end", LB, "document", RB>>
USE_INPUTENC == <<BS, "usepackage", "[utf8]", LB, "inputenc", RB>>
USE_HYPERREF == <<BS, "usepackage", LB, "hyperref", RB>>

LowerTok(tok) ==
    CASE tok = "DOCUMENTCLASS" -> "documentclass"
      [] tok = "BEGIN" -> "begin"
      [] tok = "END" -> "end"
      [] tok = "DOCUMENT" -> "document"
      [] tok = "Restructure" -> "restructure"
      [] OTHER -> tok

\* A search that tells capitals from small letters.
KeepCase(s) == s

\* re.IGNORECASE, line 391: the search does not tell capitals from small letters.
IgnoreCase(s) == [i \in 1..Len(s) |-> LowerTok(s[i])]

\* Lines 357-396.  The two warning patterns only print.
is_valid_latex(latex_code) ==
    /\ latex_code # <<>>
    /\ ~Contains(latex_code, <<BS, LB>>)
    /\ ~Contains(latex_code, <<BS, RB>>)
    /\ Contains(IgnoreCase(latex_code), DOCCLASS)
    /\ Contains(IgnoreCase(latex_code), BEGIN_DOC)
    /\ Contains(IgnoreCase(latex_code), END_DOC)

\* Pieces the validator's arguments are put together from: the three markers
\* in small letters and in capitals, a marker without its backslash, and the
\* single characters.
Capitals(s) ==
    [i \in 1..Len(s) |-> CASE s[i] = "documentclass" -> "DOCUMENTCLASS"
                            [] s[i] = "begin" -> "BEGIN"
                            [] s[i] = "end" -> "END"
                            [] s[i] = "document" -> "DOCUMENT"
                            [] OTHER -> s[i]]

MarkupPieces ==
    {DOCCLASS, BEGIN_DOC, END_DOC, Capitals(DOCCLASS), Capitals(BEGIN_DOC), Capitals(END_DOC),
     <<"begin", LB, "document", RB>>, <<BS>>, <<LB>>, <<RB>>, <<"x">>}

\* Most pieces in one argument.
MaxPieces == 4

RECURSIVE Flatten(_)
Flatten(ps) == IF ps = <<>> THEN <<>> ELSE Head(ps) \o Flatten(Tail(ps))

\* is_valid_latex is handed None or a str.
ValidInit ==
    /\ vl_phase = "given"
    /\ vl_out = FALSE
    /\ \/ vl_in = NoneArg
       \/ \E n \in 0..MaxPieces : \E ps \in [1..n -> MarkupPieces] :
              vl_in = [kind |-> "str", text |-> Flatten(ps)]

\* Line 359: "not latex_code" holds of None and of the empty str.
ValidApply ==
    /\ vl_phase = "given"
    /\ vl_out' = (vl_in.kind = "str" /\ is_valid_latex(vl_in.text))
    /\ vl_phase' = "done"
    /\ UNCHANGED vl_in
    /\ UNCHANGED <<llm_vars, mem_vars, fx_vars, ag_vars, gr_vars, mj_vars, api_vars, db_vars, ar_vars, tx_vars, rs_vars>>

ValidUnused == vl_phase = "idle" /\ vl_in = NoneArg /\ vl_out = FALSE

\* Lines 430-472, with "x" for the text between the commands: the class, the
\* packages, the document with a centred heading that ends in "\\", one list.
get_fallback_latex_template ==
    DOCCLASS \o <<"x", LB, "x", RB>> \o USE_INPUTENC \o USE_HYPERREF
    \o BEGIN_DOC
    \o <<BS, "begin", LB, "x", RB>>
    \o <<LB, BS, "x", SP, BS, "x", LB, "x", RB, RB, SP, BS, BS>>
    \o <<BS, "end", LB, "x", RB>>
    \o <<BS, "x", LB, "x", RB, "x">>
    \o END_DOC

\* Lines 536-550.
WrapDocument(latex_code) ==
    IF StartsWith(Strip(latex_code), DOCCLASS) THEN latex_code
    ELSE DOCCLASS \o <<LB, "x", RB>> \o USE_INPUTENC \o <<BS, "usepackage", LB, "x", RB>>
         \o USE_HYPERREF \o <<BS, "x", LB, "x", RB>>
         \o BEGIN_DOC \o <<BS, "x">> \o latex_code \o END_DOC

\* An escaping that takes the braces too.
SpecialsAndBraces == <<"&", "%", "#", "_", "$", LB, RB>>

SpecialChars == <<"&", "%", "#", "_", "$">>

RECURSIVE EscapeFrom(_, _)
EscapeFrom(s, k) ==
    IF k > Len(SpecialChars) THEN s
    ELSE EscapeFrom(ReplaceAll(s, <<SpecialChars[k]>>, <<BS, SpecialChars[k]>>), k + 1)

\* Lines 553-557.
EscapeSpecials(latex_code) == EscapeFrom(latex_code, 1)

\* Lines 561-565.
EnsureHyperref(latex_code) ==
    IF Contains(latex_code, <<BS, "href">>) /\ ~Contains(latex_code, USE_HYPERREF)
    THEN ReplaceAll(latex_code, USE_INPUTENC, USE_INPUTENC \o USE_HYPERREF)
    ELSE latex_code

\* Lines 514-565: what career_agent writes to the .tex file for the markup
\* generate_latex_with_ai gave it: the steps are applied to the markup if it
\* is valid and to the template if it is not.
MarkupSteps(chosen) ==
    EnsureHyperref(EscapeSpecials(WrapDocument(fix_latex_syntax(chosen))))

TemplateMarkup == MarkupSteps(get_fallback_latex_template)

RestructureMarkup(generated) ==
    IF is_valid_latex(generated) THEN MarkupSteps(generated) ELSE TemplateMarkup

\* Markup the model lets the LLM generate: a sound document, one with
\* over-escaped braces, one whose environments lack their backslash, one with
\* a special character and a link, a fragment, blank text, nothing.
LatexOutputs ==
    { DOCCLASS \o <<LB, "x", RB>> \o BEGIN_DOC \o <<"x">> \o END_DOC,
      DOCCLASS \o <<BS, LB, "x", BS, RB>> \o BEGIN_DOC \o <<"x">> \o END_DOC,
      DOCCLASS \o <<LB, "x", RB, "begin", LB, "document", RB, "x",
                    "end", LB, "document", RB>>,
      DOCCLASS \o <<LB, "x", RB>> \o USE_INPUTENC \o BEGIN_DOC
          \o <<"x", "&", BS, "href", LB, "x", RB>> \o END_DOC,
      <<"x">>, <<SP>>, <<>> }

\* Pieces the generated markup is put together from: the markers, the class
\* line in capitals and with the inputenc package, an environment without its
\* backslash, a link, a special character and a backslash.
GeneratedPieces ==
    {DOCCLASS, DOCCLASS \o USE_INPUTENC, Capitals(DOCCLASS), BEGIN_DOC, END_DOC,
     <<"end", LB, "document", RB>>, <<BS, "href", LB, "x", RB>>, <<"&">>, <<BS>>}

\* Most pieces in one generated markup.
MaxGenerated == 4

MarkupInit ==
    /\ tx_phase = "given"
    /\ tx_out = <<>>
    /\ \E n \in 0..MaxGenerated : \E ps \in [1..n -> GeneratedPieces] :
           tx_in = Flatten(ps)

\* Lines 511-570: the markup is chosen, fixed, wrapped, escaped and written.
MarkupWrite ==
    /\ tx_phase = "given"
    /\ tx_out' = RestructureMarkup(tx_in)
    /\ tx_phase' = "done"
    /\ UNCHANGED tx_in
    /\ UNCHANGED <<llm_vars, mem_vars, fx_vars, ag_vars, vl_vars, gr_vars, mj_vars, api_vars, db_vars, ar_vars, rs_vars>>

MarkupUnused == tx_phase = "idle" /\ tx_in = <<>> /\ tx_out = <<>>

-----------------------------------------------------------------------------
(* The agents: career_agent, learning_agent, chitchat *)

\* Agent calls in one behaviour.
MaxAgentCalls == 2

\* A value of the state dict: the key is "missing", holds None ("none") or a str.
NoneVal == [kind |-> "none", text |-> <<>>]
MissingVal == [kind |-> "missing", text |-> <<>>]
Str(t) == [kind |-> "str", text |-> t]

\* The texts the model puts into a state dict.
MsgTexts == {<<>>, <<SP>>, <<"a">>, <<"a", "a">>, <<"resume">>, <<"learn">>}

StateValues == {NoneVal, MissingVal} \cup {Str(t) : t \in MsgTexts}

\* state.get(key) or "".
OrEmpty(v) == IF v.kind = "str" THEN v.text ELSE <<>>

\* len(): a word token stands for at least two characters.
CharLen(t) == Cardinality({i \in 1..Len(t) : t[i] \in Char})
              + 2 * Cardinality({i \in 1..Len(t) : t[i] \notin Char})

\* The keyword groups of enhanced_fallback_response a token holds.
TokKw(tok) ==
    CASE tok \in {"resume", "fb_career", "fb_generic"} -> {"career"}
      [] tok = "fb_learn" -> {"career", "learn"}
      [] tok = "fb_sql" -> {"sql", "learn"}
      [] tok \in {"fb_python", "fb_javascript"} -> {"python", "javascript", "learn"}
      [] tok = "learn" -> {"learn"}
      [] OTHER -> {}

TextKw(t) == UNION {TokKw(t[i]) : i \in 1..Len(t)}

ShortPrompt(kw) ==
    [kw |-> kw, tailkw |-> {}, long |-> FALSE, context |-> <<>>, topic |-> <<>>]

\* What safe_llm_invoke gives its caller over every behaviour of the
\* providers, when they generate the texts of C; computed for a prompt without
\* keywords.
GatewayOutcomes(C, timeout) ==
    {[raised |-> r.raised, source |-> r.source, text |-> r.text] :
        r \in {safe_llm_invoke(ShortPrompt({}), timeout, e) : e \in Envs(C, timeout)}}

\* The call sites: lines 487 and 506 (default timeout), 350, 744, 773.
ClassifierContents ==
    {<<>>, <<"restructure">>, <<"analyze">>, <<"a", SP, "restructure">>,
     <<"Restructure">>, <<"restructured">>}
ClassifierOutcomes == GatewayOutcomes(ClassifierContents, 30)
\* Texts a provider answers the other prompts with: nothing, blank, a warning
\* sign, a word, a word with trailing whitespace.
AgentContents == {<<>>, <<SP>>, <<WARN>>, <<"a">>, <<"a", SP>>}
AnalyzeOutcomes == GatewayOutcomes(AgentContents, 30)
LatexGenOutcomes == GatewayOutcomes(LatexOutputs, 30)
LearningOutcomes == GatewayOutcomes(AgentContents, 15)
ChatOutcomes == GatewayOutcomes(AgentContents, 10)

\* The same for a given prompt: the prompt decides the local fallback text only.
GatewayResults(prompt, outcomes) ==
    {[raised |-> o.raised, degraded |-> o.source = "fallback",
      text |-> IF o.source = "fallback" THEN enhanced_fallback_response(Truncate(prompt))
               ELSE o.text] : o \in outcomes}

\* The module-level name safe_llm_invoke bound to another function, as a test
\* double is: the agent is handed any text.
StubResults == {[raised |-> FALSE, degraded |-> FALSE, text |-> t] : t \in AgentContents}

\* What an agent's call of safe_llm_invoke gives it.
Gateway(stub, prompt, outcomes) ==
    IF stub THEN StubResults ELSE GatewayResults(prompt, outcomes)

\* The replies the source spells out.
CAREER_NEED_RESUME == <<WARN, "please_provide_resume">>
CAREER_NO_CONTENT == <<WARN, "no_content">>
WRITE_FAILED == <<"tex_write_failed">>
COMPILE_OK == <<"resume_tailored">>
COMPILE_ISSUES == <<WARN, "pdf_issues">>
COMPILE_FAILED == <<"compile_failed">>
LEARN_NEED_TOPIC == <<"please_provide_topic">>
LEARN_APOLOGY == <<"learning_apology">>
LEARN_TECHNICAL == <<"technical_difficulties">>
LEARN_DEFAULT_TOPIC == <<"help_me", "learn">>
CHAT_APOLOGY == <<"chat_apology">>
NO_CONTEXT == <<"no_previous_context">>

\* What writing the .tex file, the two pdflatex passes and the fitz fallback
\* do.  run: both passes exit with status 0 or with another status, the
\* executable is missing, or the first or the second pass exceeds its 60 s.
\* pdf: <base>.pdf after the passes is missing, at most 1000 bytes, or larger.
\* The file name is a fresh uuid, so without pdflatex there is no such file.
FsEnvs ==
    {f \in [write_ok : BOOLEAN,
            run : {"exit0", "exit1", "notfound", "timeout1", "timeout2"},
            pdf : {"missing", "small", "big"}, fitz_ok : BOOLEAN] :
        f.run = "notfound" => f.pdf = "missing"}

NoFs == [write_ok |-> TRUE, run |-> "exit0", pdf |-> "missing", fitz_ok |-> TRUE]

\* What a call did outside itself: writes of the .tex file, pdflatex passes
\* started, runs of the fitz fallback, and the files in GEN_DIR when it returns
\* ("tex" is <base>.tex, "pdf" is <base>.pdf, "simple" is <base>_simple.pdf).
NoEffects == [writes |-> 0, passes |-> 0, fallbacks |-> 0, files |-> {}]

Result(reply, pdf_path, latex_code, intent) ==
    [raised |-> FALSE, reply |-> reply, pdf_path |-> pdf_path,
     latex_code |-> latex_code, intent |-> intent, effects |-> NoEffects]

Raised == [raised |-> TRUE, reply |-> <<>>, pdf_path |-> "none",
           latex_code |-> <<>>, intent |-> "none", effects |-> NoEffects]

\* Lines 486-492: the classifier prompt names the resume and holds the message.
ClassifierPrompt(state) ==
    ShortPrompt({"career"} \cup TextKw(OrEmpty(state.message)))

\* Lines 498-505.
AnalyzePrompt(state) == ShortPrompt({"career"} \cup TextKw(OrEmpty(state.message))
                                    \cup TextKw(Strip(OrEmpty(state.resume_text))))

\* generate_latex_with_ai, lines 329-347.
LatexPrompt(state) == AnalyzePrompt(state)

\* Lines 495-507, given the gateway's answer to the analysis prompt.
AnalyzeBranch(gw) ==
    IF gw.raised THEN Raised
    ELSE Result(Strip(IF Truthy(gw.text) THEN gw.text ELSE CAREER_NO_CONTENT),
                "none", <<>>, "analyze")

\* Lines 589-596: subprocess.run has no check=True, so it returns whatever the
\* exit status is.
PassesReturned(fs) == fs.run \in {"exit0", "exit1"}

\* Lines 589-596: the subprocess.run calls made; an exception ends the loop.
Passes(fs) == IF fs.run \in {"notfound", "timeout1"} THEN 1 ELSE 2

\* A handler that logs the failed write and goes on.
WriteFailureGoesOn(fs) == FALSE

\* Lines 572-580: the except branch of the write returns.
WriteFailureReturns(fs) == ~fs.write_ok

\* Lines 582-622: the two pdflatex runs and the test of the PDF.
\* generated: pdf_generated after the block.
Compile(fs) ==
    IF ~PassesReturned(fs)
    THEN [reply |-> COMPILE_FAILED, generated |-> FALSE, output |-> TRUE]
    ELSE IF fs.pdf = "big"
    THEN [reply |-> COMPILE_OK, generated |-> TRUE, output |-> TRUE]
    ELSE [reply |-> COMPILE_ISSUES, generated |-> fs.pdf = "small", output |-> TRUE]

\* generate_latex_with_ai, lines 348-353, given the gateway's answer.
generate_latex_with_ai(gw) == IF gw.raised THEN <<>> ELSE Strip(gw.text)

\* Lines 567-702, given the markup written to the .tex file.
RestructureBranch(latex_code, fs) ==
    LET c == Compile(fs)
        links == IF c.generated THEN <<"download_links">>
                 ELSE <<"using_fallback">>
                      \o (IF fs.fitz_ok THEN <<"simple_links">> ELSE <<"fallback_failed">>)
        pdf_generated == c.generated \/ fs.fitz_ok
        source == IF Truthy(latex_code) THEN <<"latex_source">> ELSE <<>>
        logs == IF c.output /\ ~pdf_generated THEN <<"compilation_logs">> ELSE <<>>
        files == (IF fs.write_ok THEN {"tex"} ELSE {})
                 \cup (IF fs.pdf # "missing" THEN {"pdf"} ELSE {})
                 \cup (IF ~c.generated /\ fs.fitz_ok THEN {"simple"} ELSE {})
    IN  IF WriteFailureReturns(fs)
        THEN [Result(WRITE_FAILED, "none", latex_code, "restructure")
                 EXCEPT !.effects = [NoEffects EXCEPT !.writes = 1]]
        ELSE [Result(c.reply \o links \o source \o logs,
                     IF pdf_generated THEN "preview_url" ELSE "none",
                     latex_code, "restructure")
                 EXCEPT !.effects = [writes |-> 1, passes |-> Passes(fs),
                                     fallbacks |-> IF c.generated THEN 0 ELSE 1,
                                     files |-> files]]

CareerStates ==
    [message : {NoneVal, Str(<<"a">>), Str(<<"resume">>), Str(<<"rewrite", "resume">>)},
     resume_text : {MissingVal, NoneVal, Str(<<>>), Str(<<SP>>), Str(<<"resume">>),
                    Str(<<SP, "a">>)}]

\* A guard that tests the resume text as it came.
UnstrippedGuard(state) == ~Truthy(OrEmpty(state.resume_text))

\* Lines 480-481: the guard tests the stripped resume text.
NeedsResume(state) == ~Truthy(Strip(OrEmpty(state.resume_text)))

\* A classifier answer taken as it came.
AnswerAsIs(cls) == Strip(cls.text)

\* Line 490: .strip().lower() of the classifier's answer.
ClassifierAnswer(cls) == IgnoreCase(Strip(cls.text))

\* Line 492: "restructure" in res, a substring test.
SelectsRestructure(res) ==
    \E i \in 1..Len(res) : res[i] \in {"restructure", "restructured"}

NoCall == [agent |-> "none", message |-> NoneVal, resume_text |-> NoneVal,
           thread |-> "default", stub |-> FALSE, prompts |-> <<>>, gateway |-> <<>>,
           fs |-> NoFs]

\* career_agent(state), lines 475-702.  The call reads nothing an earlier
\* call left behind and leaves nothing a later call reads, so the model takes
\* it as the only call of a behaviour.
CareerAgent ==
    /\ ag_count = 0
    /\ \E state \in CareerStates, stub \in BOOLEAN :
         LET call == [NoCall EXCEPT !.agent = "career", !.message = state.message,
                                    !.resume_text = state.resume_text]
             made == [call EXCEPT !.stub = stub]
         IN  IF NeedsResume(state)
             THEN /\ ag_last' = call
                  /\ ag_out' = Result(CAREER_NEED_RESUME, "none", <<>>, "none")
             ELSE \E cls \in Gateway(stub, ClassifierPrompt(state), ClassifierOutcomes) :
                    IF cls.raised
                    THEN /\ ag_last' = [made EXCEPT !.prompts = <<ClassifierPrompt(state)>>,
                                                    !.gateway = <<cls>>]
                         /\ ag_out' = Raised
                    ELSE IF ~SelectsRestructure(ClassifierAnswer(cls))
                    THEN \E gw \in Gateway(stub, AnalyzePrompt(state), AnalyzeOutcomes) :
                           /\ ag_last' = [made EXCEPT
                                  !.prompts = <<ClassifierPrompt(state), AnalyzePrompt(state)>>,
                                  !.gateway = <<cls, gw>>]
                           /\ ag_out' = AnalyzeBranch(gw)
                    ELSE \E gw \in Gateway(stub, LatexPrompt(state), LatexGenOutcomes) :
                           \E latex_code \in {RestructureMarkup(generate_latex_with_ai(gw))} :
                             \E fs \in FsEnvs :
                               /\ ag_last' = [made EXCEPT
                                      !.prompts = <<ClassifierPrompt(state), LatexPrompt(state)>>,
                                      !.gateway = <<cls, gw>>, !.fs = fs]
                               /\ ag_out' = RestructureBranch(latex_code, fs)
    /\ ag_phase' = "returned"
    /\ ag_count' = ag_count + 1
    /\ UNCHANGED <<ag_mem, ag_done>>
    /\ UNCHANGED <<llm_vars, mem_vars, fx_vars, vl_vars, gr_vars, mj_vars, api_vars, db_vars, ar_vars, tx_vars, rs_vars>>

\* The object the module name memory_store is bound to when the agents run:
\* line 705 rebinds the name from the ThreadSafeMemoryStore of line 48 to {}.
MemoryStoreBinding == "dict"

AgentThreads == ThreadIds \cup {"default"}

\* Line 755: the entry learning_agent builds.
Exchange(topic, reply) == <<"User:">> \o topic \o <<"Assistant:">> \o reply

\* Lines 727-739: the prompt holds the last two entries and the question.
LearningPrompt(history, topic) ==
    LET context == IF history # <<>> THEN Last(history, 2) ELSE <<NO_CONTEXT>>
    IN  [kw |-> {"learn"} \cup TextKw(topic)
                \cup UNION {TextKw(context[i]) : i \in 1..Len(context)},
         tailkw |-> {}, long |-> FALSE, context |-> context, topic |-> topic]

\* Line 750.
LearningReply(gw) ==
    IF ~Truthy(gw.text) \/ StartsWith(gw.text, <<WARN>>) THEN LEARN_APOLOGY ELSE gw.text

\* learning_agent(state, thread_id), lines 709-767.  Its calls follow one
\* another: the memory is all a call reads of what went before.
LearningAgent ==
    /\ ag_count < MaxAgentCalls
    /\ ag_last.agent \in {"none", "learning"}
    /\ \E message \in StateValues, state_thread \in {"", "t1"}, thread_id \in {"", "t2"},
          stub \in BOOLEAN :
         LET thread == IF state_thread # "" THEN state_thread
                       ELSE IF thread_id # "" THEN thread_id ELSE "default"
             topic == IF message.kind = "missing" THEN Str(LEARN_DEFAULT_TOPIC) ELSE message
             call == [NoCall EXCEPT !.agent = "learning", !.message = topic,
                                    !.thread = thread]
         IN  IF topic.kind = "none" \/ ~Truthy(topic.text) \/ CharLen(Strip(topic.text)) < 2
             THEN /\ ag_last' = call
                  /\ ag_out' = Result(LEARN_NEED_TOPIC, "none", <<>>, "none")
                  /\ UNCHANGED <<ag_mem, ag_done>>
             ELSE LET prompt == LearningPrompt(ag_mem[thread], topic.text)
                  IN  \E gw \in Gateway(stub, prompt, LearningOutcomes) :
                        /\ ag_last' = [call EXCEPT !.stub = stub, !.prompts = <<prompt>>,
                                                   !.gateway = <<gw>>]
                        /\ IF gw.raised
                           THEN /\ ag_out' = Result(LEARN_TECHNICAL, "none", <<>>, "none")
                                /\ UNCHANGED <<ag_mem, ag_done>>
                           ELSE /\ ag_done' = [ag_done EXCEPT ![thread] =
                                      Append(@, Exchange(topic.text, LearningReply(gw)))]
                                /\ IF MemoryStoreBinding = "dict"
                                   THEN \* a dict has no append: AttributeError, line 761
                                        /\ ag_out' = Result(LEARN_TECHNICAL, "none", <<>>, "none")
                                        /\ UNCHANGED ag_mem
                                   ELSE /\ ag_out' = Result(Strip(LearningReply(gw)),
                                                            "none", <<>>, "none")
                                        /\ ag_mem' = [ag_mem EXCEPT ![thread] = KeepLast(
                                              Append(@, Exchange(topic.text, LearningReply(gw))))]
    /\ ag_phase' = "returned"
    /\ ag_count' = ag_count + 1
    /\ UNCHANGED <<llm_vars, mem_vars, fx_vars, vl_vars, gr_vars, mj_vars, api_vars, db_vars, ar_vars, tx_vars, rs_vars>>

\* Line 774: not reply.strip().
ReplyIsBlank(reply) == ~Truthy(Strip(reply))

\* chitchat(state), lines 770-776; taken as the only call, as career_agent is.
Chitchat ==
    /\ ag_count = 0
    /\ \E message \in StateValues, stub \in BOOLEAN :
         LET msg == IF message.kind = "none" THEN <<"None">> ELSE message.text
             prompt == ShortPrompt(TextKw(msg))
         IN  \E gw \in Gateway(stub, prompt, ChatOutcomes) :
               /\ ag_last' = [NoCall EXCEPT !.agent = "chat", !.message = message,
                                            !.stub = stub,
                                            !.prompts = <<prompt>>, !.gateway = <<gw>>]
               /\ ag_out' = IF gw.raised THEN Raised
                            ELSE Result(IF ReplyIsBlank(gw.text) THEN CHAT_APOLOGY ELSE gw.text,
                                        "none", <<>>, "none")
    /\ ag_phase' = "returned"
    /\ ag_count' = ag_count + 1
    /\ UNCHANGED <<ag_mem, ag_done>>
    /\ UNCHANGED <<llm_vars, mem_vars, fx_vars, vl_vars, gr_vars, mj_vars, api_vars, db_vars, ar_vars, tx_vars, rs_vars>>

AgentInit ==
    /\ ag_phase = "idle"
    /\ ag_last = NoCall
    /\ ag_out = Result(<<>>, "none", <<>>, "none")
    /\ ag_mem = [t \in AgentThreads |-> <<>>]
    /\ ag_done = [t \in AgentThreads |-> <<>>]
    /\ ag_count = 0

AgentNext == CareerAgent \/ LearningAgent \/ Chitchat

-----------------------------------------------------------------------------
(* The router and the compiled graph: router, build_graph *)

\* Words of the two lists of lines 297 and 299 that the model's messages use,
\* one of them also in capitals, and "a" for any other text.
CareerWords == {"job", "resume"}
LearningWords == {"learn", "quiz"}
MsgTok == CareerWords \cup LearningWords \cup {"RESUME", "a"}

\* Longest message the model enumerates, in words.
MaxMsgLen == 3

\* str.lower(), line 295.
Lower(s) == [i \in 1..Len(s) |-> IF s[i] = "RESUME" THEN "resume" ELSE s[i]]

\* any(k in text for k in words), lines 297 and 299.
AnyIn(words, text) == \E i \in 1..Len(text) : text[i] \in words

\* Lines 296-300: the second test overwrites the result of the first.
ByPresence(text) ==
    IF AnyIn(LearningWords, text) THEN "learning"
    ELSE IF AnyIn(CareerWords, text) THEN "career"
    ELSE "chat"

\* router(state), lines 294-301: the intent it returns.
router(message) == ByPresence(Lower(OrEmpty(message)))

\* Values the key "intent" can hold; "unset" when the key is absent.
Intents == {"career", "learning", "chat", "other", "unset"}

\* route(state), lines 789-795.
route(intent) ==
    IF intent = "career" THEN "career"
    ELSE IF intent = "learning" THEN "learning"
    ELSE "chat"

AgentNodes == {"career", "learning", "chat"}

\* A graph whose agent nodes lead back to the router.
EdgesBack(node, intent) ==
    CASE node = "router" -> {route(intent)}
      [] node \in AgentNodes -> {"router"}
      [] OTHER -> {}

\* Lines 797-800: the edges that leave each node.
Edges(node, intent) ==
    CASE node = "router" -> {route(intent)}
      [] node \in AgentNodes -> {"end"}
      [] OTHER -> {}

\* app_graph.invoke(state): the run stands before the entry point, line 787.
GraphInit ==
    /\ gr_node = "entry"
    /\ gr_intent = "unset"
    /\ gr_path = <<>>
    /\ \/ gr_msg \in {NoneVal, MissingVal}
       \/ \E n \in 0..MaxMsgLen : \E t \in [1..n -> MsgTok] : gr_msg = Str(t)

\* The run enters the graph at the router, line 787.
Enter ==
    /\ gr_node = "entry"
    /\ gr_node' = "router"
    /\ UNCHANGED <<gr_msg, gr_intent, gr_path>>
    /\ UNCHANGED <<llm_vars, mem_vars, fx_vars, ag_vars, vl_vars, mj_vars, api_vars, db_vars, ar_vars, tx_vars, rs_vars>>

\* The router node runs and its conditional edge chooses the next node.
RouterNode ==
    /\ gr_node = "router"
    /\ gr_intent' = router(gr_msg)
    /\ gr_path' = Append(gr_path, "router")
    /\ gr_node' \in Edges("router", gr_intent')
    /\ UNCHANGED gr_msg
    /\ UNCHANGED <<llm_vars, mem_vars, fx_vars, ag_vars, vl_vars, mj_vars, api_vars, db_vars, ar_vars, tx_vars, rs_vars>>

\* An agent node runs and its edge leads to END.
AgentNode ==
    /\ gr_node \in AgentNodes
    /\ gr_path' = Append(gr_path, gr_node)
    /\ gr_node' \in Edges(gr_node, gr_intent)
    /\ UNCHANGED <<gr_msg, gr_intent>>
    /\ UNCHANGED <<llm_vars, mem_vars, fx_vars, ag_vars, vl_vars, mj_vars, api_vars, db_vars, ar_vars, tx_vars, rs_vars>>

GraphNext == Enter \/ RouterNode \/ AgentNode

GraphUnused ==
    /\ gr_node = "none"
    /\ gr_msg = NoneVal
    /\ gr_intent = "unset"
    /\ gr_path = <<>>

-----------------------------------------------------------------------------
(* The job ranking: match_jobs (src/tools.py) *)

\* Skill names the model uses, one of them also with a capital.
SkillNames == {"python", "sql", "Python"}

\* s.lower(), line 33.
LowerSkill(name) == IF name = "Python" THEN "python" ELSE name

\* The requirements of a posting: the key is absent, or holds a list.
ReqChoices ==
    {[has_req |-> FALSE, requirements |-> <<>>]}
    \cup {[has_req |-> TRUE, requirements |-> r] :
             r \in {<<>>, <<"python">>, <<"Python", "sql">>, <<"sql", "sql">>, <<"go">>}}

\* Most postings in one call.
MaxPosts == 3

\* Lines 32-34: post.get("requirements", []) lower-cased, and the size of its
\* intersection with the skills.
score(skills, post) ==
    LET reqs == [i \in 1..Len(post.requirements) |-> LowerSkill(post.requirements[i])]
    IN  Cardinality(skills \cap {reqs[i] : i \in 1..Len(reqs)})

\* A sort that puts a posting before the ones of equal score already placed.
InsertBeforeTies(skills, post, placed) ==
    LET before == {i \in 1..Len(placed) : score(skills, placed[i]) > score(skills, post)}
        k == Cardinality(before)
    IN  SubSeq(placed, 1, k) \o <<post>> \o SubSeq(placed, k + 1, Len(placed))

\* sorted(..., reverse=True) is stable: a posting goes behind every posting
\* placed earlier whose score is at least its own.
InsertAfterTies(skills, post, placed) ==
    LET before == {i \in 1..Len(placed) : score(skills, placed[i]) >= score(skills, post)}
        k == Cardinality(before)
    IN  SubSeq(placed, 1, k) \o <<post>> \o SubSeq(placed, k + 1, Len(placed))

\* Line 36: sorted(job_posts, key=score, reverse=True), the first n postings placed.
RECURSIVE Ranked(_, _, _)
Ranked(skills, posts, n) ==
    IF n = 0 THEN <<>>
    ELSE InsertAfterTies(skills, posts[n], Ranked(skills, posts, n - 1))

\* match_jobs(skills, job_posts), lines 30-39.
match_jobs(skills, job_posts) ==
    LET ranked == Ranked(skills, job_posts, Len(job_posts))
    IN  [i \in 1..Len(ranked) |->
            [title |-> ranked[i].title, has_req |-> ranked[i].has_req,
             requirements |-> ranked[i].requirements,
             match_score |-> score(skills, ranked[i])]]

\* The postings of a call carry their place in the input list as title.
JobsInit ==
    /\ mj_phase = "given"
    /\ mj_out = <<>>
    /\ \E skills \in SUBSET SkillNames : \E n \in 0..MaxPosts :
         \E rs \in [1..n -> ReqChoices] :
            mj_in = [skills |-> skills,
                     job_posts |-> [i \in 1..n |->
                         [title |-> i, has_req |-> rs[i].has_req,
                          requirements |-> rs[i].requirements]]]

JobsApply ==
    /\ mj_phase = "given"
    /\ mj_out' = match_jobs(mj_in.skills, mj_in.job_posts)
    /\ mj_phase' = "done"
    /\ UNCHANGED mj_in
    /\ UNCHANGED <<llm_vars, mem_vars, fx_vars, ag_vars, vl_vars, gr_vars, api_vars, db_vars, ar_vars, tx_vars, rs_vars>>

JobsUnused ==
    /\ mj_phase = "idle"
    /\ mj_in = [skills |-> {}, job_posts |-> <<>>]
    /\ mj_out = <<>>

-----------------------------------------------------------------------------
(* The AI endpoints: career and learning (src/main.py) *)

\* Requests in one behaviour.
MaxRequests == 4

\* asyncio.wait_for(..., timeout=20.0), in ticks of 10 s.
WaitTicks == 2

\* The clock of a waiting caller stops here.
MaxAge == 3

\* ChatRequest.resume_text: Optional[str] = None, so an omitted field is None.
ResumeArgs == {NoneVal, Str(<<>>), Str(<<SP>>), Str(<<"resume">>)}

\* caller: what the client has of the request ("waiting", or a status code).
\* call: the agent call made for it; pool: the call was handed to executor;
\* age: the ticks the caller has been waiting, 0 once it is answered.
NoRequest == [endpoint |-> "none", resume_text |-> NoneVal, caller |-> "none",
              call |-> "none", pool |-> FALSE, age |-> 0]

OnPool(i) == rq[i].pool /\ rq[i].call = "running"

\* An executor that starts every submitted call at once.
AlwaysFree == TRUE

\* ThreadPoolExecutor(max_workers=3): a queued call starts when fewer than
\* three calls hold a worker.
WorkerFree == Cardinality({j \in 1..MaxRequests : OnPool(j)}) < NumWorkers

\* career(req), lines 516-523: req.dict() holds resume_text: None for an
\* omitted field, so .get's default is not used and None.strip() raises
\* AttributeError (status 500); blank text gives 400; otherwise career_agent
\* is called in the handler itself.
Career ==
    /\ arrived < MaxRequests
    /\ \E resume_text \in ResumeArgs :
         LET req == [NoRequest EXCEPT !.endpoint = "career", !.resume_text = resume_text]
         IN  rq' = [rq EXCEPT ![arrived + 1] =
                 IF resume_text.kind # "str" THEN [req EXCEPT !.caller = "500"]
                 ELSE IF ~Truthy(Strip(resume_text.text)) THEN [req EXCEPT !.caller = "400"]
                 ELSE [req EXCEPT !.caller = "waiting", !.call = "running"]]
    /\ arrived' = arrived + 1
    /\ UNCHANGED <<llm_vars, mem_vars, fx_vars, ag_vars, vl_vars, gr_vars, mj_vars, db_vars, ar_vars, tx_vars, rs_vars>>

\* Lines 530-536: career_agent returned, the handler answers.
CareerReturn(i) ==
    /\ rq[i].endpoint = "career" /\ rq[i].call = "running"
    /\ rq' = [rq EXCEPT ![i].call = "done", ![i].caller = "200", ![i].age = 0]
    /\ UNCHANGED arrived
    /\ UNCHANGED <<llm_vars, mem_vars, fx_vars, ag_vars, vl_vars, gr_vars, mj_vars, db_vars, ar_vars, tx_vars, rs_vars>>

\* learning(req), lines 553-559: the call is submitted to executor and the
\* handler waits for it.
Learning ==
    /\ arrived < MaxRequests
    /\ rq' = [rq EXCEPT ![arrived + 1] =
                 [NoRequest EXCEPT !.endpoint = "learning", !.caller = "waiting",
                                   !.call = "queued", !.pool = TRUE]]
    /\ arrived' = arrived + 1
    /\ UNCHANGED <<llm_vars, mem_vars, fx_vars, ag_vars, vl_vars, gr_vars, mj_vars, db_vars, ar_vars, tx_vars, rs_vars>>

\* A worker of the executor takes the oldest queued call.
Start(i) ==
    /\ rq[i].call = "queued"
    /\ \A j \in 1..(i - 1) : rq[j].call # "queued"
    /\ WorkerFree
    /\ rq' = [rq EXCEPT ![i].call = "running"]
    /\ UNCHANGED arrived
    /\ UNCHANGED <<llm_vars, mem_vars, fx_vars, ag_vars, vl_vars, gr_vars, mj_vars, db_vars, ar_vars, tx_vars, rs_vars>>

\* learning_agent_wrapper returned (lines 593-625: it catches every
\* exception); a handler still waiting answers, line 562.
CallDone(i) ==
    /\ OnPool(i)
    /\ rq' = [rq EXCEPT ![i].call = "done", ![i].age = 0,
                        ![i].caller = IF @ = "waiting" THEN "200" ELSE @]
    /\ UNCHANGED arrived
    /\ UNCHANGED <<llm_vars, mem_vars, fx_vars, ag_vars, vl_vars, gr_vars, mj_vars, db_vars, ar_vars, tx_vars, rs_vars>>

\* Lines 564-569: wait_for gives up after 20 s and the handler answers 504.
\* The future is cancelled: a call still queued never starts, a running one
\* goes on and keeps its worker.
TimedOut(i) ==
    /\ rq[i].endpoint = "learning" /\ rq[i].caller = "waiting"
    /\ rq[i].age >= WaitTicks
    /\ rq' = [rq EXCEPT ![i].caller = "504", ![i].age = 0,
                        ![i].call = IF @ = "queued" THEN "cancelled" ELSE @]
    /\ UNCHANGED arrived
    /\ UNCHANGED <<llm_vars, mem_vars, fx_vars, ag_vars, vl_vars, gr_vars, mj_vars, db_vars, ar_vars, tx_vars, rs_vars>>

\* Ten seconds pass for every waiting caller; the timer of wait_for fires
\* before more time passes.
Tick ==
    /\ \A i \in 1..MaxRequests :
          (rq[i].endpoint = "learning" /\ rq[i].caller = "waiting") => rq[i].age < WaitTicks
    /\ \E i \in 1..MaxRequests : rq[i].caller = "waiting" /\ rq[i].age < MaxAge
    /\ rq' = [i \in 1..MaxRequests |->
                 IF rq[i].caller = "waiting" /\ rq[i].age < MaxAge
                 THEN [rq[i] EXCEPT !.age = @ + 1] ELSE rq[i]]
    /\ UNCHANGED arrived
    /\ UNCHANGED <<llm_vars, mem_vars, fx_vars, ag_vars, vl_vars, gr_vars, mj_vars, db_vars, ar_vars, tx_vars, rs_vars>>

ApiInit ==
    /\ rq = [i \in 1..MaxRequests |-> NoRequest]
    /\ arrived = 0

ApiNext ==
    \/ Career
    \/ Learning
    \/ Tick
    \/ \E i \in 1..MaxRequests : CareerReturn(i) \/ Start(i) \/ CallDone(i) \/ TimedOut(i)

ApiUnused == ApiInit

-----------------------------------------------------------------------------
(* The saved jobs and the chat histories (src/main.py) *)

\* Rows the tables are given in a behaviour, all tables together.
MaxRows == 3

\* The names verify_token yields; "ghost" has a valid token but no users row.
Usernames == {"u1", "u2", "ghost"}

\* SELECT id FROM users WHERE username=?: 0 stands for no row.
UserId(user) == CASE user = "u1" -> 1 [] user = "u2" -> 2 [] OTHER -> 0

\* data.get("job_id"): absent (None), an integer, or an integer as a string.
JobArgs == {[kind |-> "none", val |-> 0]} \cup [kind : {"int", "str"}, val : 0..2]

\* not job_id, line 670: None and 0 (the string "0" is true).
Falsy(job_id) == job_id.kind = "none" \/ (job_id.kind = "int" /\ job_id.val = 0)

\* Column job_id is INTEGER: SQLite stores a numeric string as the integer.
Stored(job_id) == job_id.val

ChatTables == {"career_chat_history", "learning_chat_history"}

\* A table without the constraint.
NoConstraint(rows, user_id, job_id) == FALSE

\* UNIQUE(user_id, job_id), line 166: the INSERT raises IntegrityError.
UniqueViolated(rows, user_id, job_id) ==
    \E r \in rows : r.user_id = user_id /\ r.job_id = job_id

\* A WHERE clause that tests the id only.
WhereId(row, chat_id, user_id) == row.id = chat_id

\* WHERE id=? AND user_id=?, lines 892 and 978.
WhereIdAndUser(row, chat_id, user_id) == row.id = chat_id /\ row.user_id = user_id

\* arg: the job_id of save_job, or the table and the chat_id.
\* The rows inserted so far.
Inserted ==
    (db_next.saved_jobs - 1) + (db_next.career_chat_history - 1)
    + (db_next.learning_chat_history - 1)

Response(op, user, arg, status, msg) ==
    [op |-> op, user |-> user, arg |-> arg, status |-> status, msg |-> msg]

ChatArg(table, chat_id) == [kind |-> table, val |-> chat_id]

\* save_job(data, user), lines 668-691.
SaveJob ==
    \E user \in Usernames, job_id \in JobArgs :
        /\ IF Falsy(job_id)
           THEN /\ db_last' = Response("save_job", user, job_id, 400, "Missing job_id")
                /\ UNCHANGED <<db_saved, db_next>>
           ELSE IF UserId(user) = 0
           THEN /\ db_last' = Response("save_job", user, job_id, 404, "User not found")
                /\ UNCHANGED <<db_saved, db_next>>
           ELSE IF UniqueViolated(db_saved, UserId(user), Stored(job_id))
           THEN /\ db_last' = Response("save_job", user, job_id, 200, "Job save failed")
                /\ UNCHANGED <<db_saved, db_next>>
           ELSE /\ Inserted < MaxRows
                /\ db_saved' = db_saved \cup
                       {[id |-> db_next.saved_jobs, user_id |-> UserId(user),
                         job_id |-> Stored(job_id)]}
                /\ db_next' = [db_next EXCEPT !.saved_jobs = @ + 1]
                /\ db_last' = Response("save_job", user, job_id, 200, "Job saved successfully")
        /\ UNCHANGED db_chats
        /\ UNCHANGED <<llm_vars, mem_vars, fx_vars, ag_vars, vl_vars, gr_vars, mj_vars, api_vars, ar_vars, tx_vars, rs_vars>>

\* save_career_chat and save_learning_chat with a message and a reply,
\* lines 839-862 and 914-948.
SaveChat(table) ==
    \E user \in Usernames :
        /\ IF UserId(user) = 0
           THEN /\ db_last' = Response("save", user, ChatArg(table, 0), 404, "User not found")
                /\ UNCHANGED <<db_chats, db_next>>
           ELSE /\ Inserted < MaxRows
                /\ db_chats' = [db_chats EXCEPT ![table] =
                       @ \cup {[id |-> db_next[table], user_id |-> UserId(user)]}]
                /\ db_next' = [db_next EXCEPT ![table] = @ + 1]
                /\ db_last' = Response("save", user, ChatArg(table, db_next[table]), 200, "saved")
        /\ UNCHANGED db_saved
        /\ UNCHANGED <<llm_vars, mem_vars, fx_vars, ag_vars, vl_vars, gr_vars, mj_vars, api_vars, ar_vars, tx_vars, rs_vars>>

\* delete_career_chat and delete_learning_chat, lines 884-895 and 970-981.
DeleteChat(table) ==
    \E user \in Usernames, chat_id \in 1..MaxRows :
        /\ IF UserId(user) = 0
           THEN /\ db_last' = Response("delete", user, ChatArg(table, chat_id), 404,
                                        "User not found")
                /\ UNCHANGED db_chats
           ELSE /\ db_chats' = [db_chats EXCEPT ![table] =
                       {r \in @ : ~WhereIdAndUser(r, chat_id, UserId(user))}]
                /\ db_last' = Response("delete", user, ChatArg(table, chat_id), 200, "deleted")
        /\ UNCHANGED <<db_saved, db_next>>
        /\ UNCHANGED <<llm_vars, mem_vars, fx_vars, ag_vars, vl_vars, gr_vars, mj_vars, api_vars, ar_vars, tx_vars, rs_vars>>

\* clear_career_chat_history and clear_learning_chat_history, lines 899-910
\* and 985-996.
ClearChat(table) ==
    \E user \in Usernames :
        /\ IF UserId(user) = 0
           THEN /\ db_last' = Response("clear", user, ChatArg(table, 0), 404, "User not found")
                /\ UNCHANGED db_chats
           ELSE /\ db_chats' = [db_chats EXCEPT ![table] =
                       {r \in @ : r.user_id # UserId(user)}]
                /\ db_last' = Response("clear", user, ChatArg(table, 0), 200, "cleared")
        /\ UNCHANGED <<db_saved, db_next>>
        /\ UNCHANGED <<llm_vars, mem_vars, fx_vars, ag_vars, vl_vars, gr_vars, mj_vars, api_vars, ar_vars, tx_vars, rs_vars>>

\* init_database, lines 97-207: the tables are empty.
DbInit ==
    /\ db_saved = {}
    /\ db_chats = [t \in ChatTables |-> {}]
    /\ db_next = [saved_jobs |-> 1, career_chat_history |-> 1, learning_chat_history |-> 1]
    /\ db_last = Response("none", "u1", ChatArg("none", 0), 0, "")

ChatNext ==
    \E table \in ChatTables : SaveChat(table) \/ DeleteChat(table) \/ ClearChat(table)

DbUnused == DbInit

-----------------------------------------------------------------------------
(* The skills heuristic: analyze_resume (src/tools.py) *)

\* Most words of a resume text.
MaxWords == 3

\* skills_db, lines 11-15, the entries the suggestions test and "python", in
\* the order sorted() gives them.
SkillsDb == <<"aws", "node", "python", "react", "sql">>

\* Words of a resume text: skills as written, in capitals, inside a longer
\* word, and between a literal backslash-b on either side.
ResumeWords == {"python", "Python", "SQL", "sql", "pythons", "aws",
                "\\bsql\\b", "\\bPython\\b"}

\* text.lower(), line 16.
LowerWord(w) ==
    CASE w = "Python" -> "python"
      [] w = "SQL" -> "sql"
      [] w = "\\bPython\\b" -> "\\bpython\\b"
      [] OTHER -> w

\* A pattern with word boundaries: the skill as a whole word.
WordBoundaries(skill) == skill

\* rf"\\b{s}\\b", line 17: in a raw string \\b is an escaped backslash and
\* the letter b, so the pattern is the skill between two literal "\b".
SkillPattern(skill) ==
    CASE skill = "python" -> "\\bpython\\b"
      [] skill = "sql" -> "\\bsql\\b"
      [] skill = "aws" -> "\\baws\\b"
      [] skill = "node" -> "\\bnode\\b"
      [] OTHER -> "\\breact\\b"

\* re.search(pattern, text_l).
Search(pattern, text_l) == \E i \in 1..Len(text_l) : text_l[i] = pattern

\* analyze_resume(text), lines 7-27.
analyze_resume(text) ==
    LET text_l == [i \in 1..Len(text) |-> LowerWord(text[i])]
        hit(skill) == Search(SkillPattern(skill), text_l)
        found == SelectSeq(SkillsDb, hit)
        has(skill) == \E i \in 1..Len(found) : found[i] = skill
    IN  [skills |-> found,
         suggestions |-> (IF ~has("sql") THEN <<"add_sql">> ELSE <<>>)
                         \o (IF ~has("aws") THEN <<"mention_cloud">> ELSE <<>>)
                         \o (IF ~has("react") /\ ~has("node")
                             THEN <<"include_react_node">> ELSE <<>>)]

ResumeInit ==
    /\ ar_phase = "given"
    /\ ar_out = [skills |-> <<>>, suggestions |-> <<>>]
    /\ \E n \in 0..MaxWords : \E text \in [1..n -> ResumeWords] : ar_text = text

ResumeApply ==
    /\ ar_phase = "given"
    /\ ar_out' = analyze_resume(ar_text)
    /\ ar_phase' = "done"
    /\ UNCHANGED ar_text
    /\ UNCHANGED <<llm_vars, mem_vars, fx_vars, ag_vars, vl_vars, gr_vars, mj_vars, api_vars, db_vars, tx_vars, rs_vars>>

ResumeUnused ==
    /\ ar_phase = "idle"
    /\ ar_text = <<>>
    /\ ar_out = [skills |-> <<>>, suggestions |-> <<>>]

-----------------------------------------------------------------------------
(* The files of concurrent Restructure requests (src/graph.py) *)

\* Restructure requests in one behaviour; uuid4 has a token for each.
MaxRestructures == 2

Restructures == 1..MaxRestructures

UuidTokens == 1..MaxRestructures

\* A file of GEN_DIR: the token in its name (0 if it has none) and what follows.
\* Line 523: base = "resume_restructured_" + token.
TexPath(base) == [base |-> base, suffix |-> ".tex"]

\* Line 525, and the file pdflatex writes for base.tex in GEN_DIR.
PdfPath(base) == [base |-> base, suffix |-> ".pdf"]

\* A fallback file with one name for every request.
FixedFallbackPath(base) == [base |-> 0, suffix |-> "_simple.pdf"]

\* Lines 641-642.
FallbackPath(base) == [base |-> base, suffix |-> "_simple.pdf"]

Use(i, op, path) == [by |-> i, op |-> op, path |-> path]

NotNamed == [pc |-> "start", base |-> 0, pdf_generated |-> FALSE]

FilesInit ==
    /\ rs_req = [i \in Restructures |-> NotNamed]
    /\ rs_drawn = {}
    /\ rs_files = {}

\* Line 523: uuid4 hands out a token it has not handed out before.
NameFiles(i) ==
    /\ rs_req[i].pc = "start"
    /\ \E token \in UuidTokens \ rs_drawn :
           /\ rs_req' = [rs_req EXCEPT ![i] = [@ EXCEPT !.pc = "named", !.base = token]]
           /\ rs_drawn' = rs_drawn \cup {token}
    /\ UNCHANGED rs_files
    /\ UNCHANGED <<llm_vars, mem_vars, fx_vars, ag_vars, vl_vars, gr_vars, mj_vars, api_vars, db_vars, ar_vars, tx_vars>>

\* Lines 567-580: the markup is written, or the write fails and the request
\* returns.
WriteTex(i) ==
    /\ rs_req[i].pc = "named"
    /\ \/ /\ rs_files' = rs_files \cup {Use(i, "write", TexPath(rs_req[i].base))}
          /\ rs_req' = [rs_req EXCEPT ![i].pc = "written"]
       \/ /\ rs_req' = [rs_req EXCEPT ![i].pc = "returned"]
          /\ UNCHANGED rs_files
    /\ UNCHANGED rs_drawn
    /\ UNCHANGED <<llm_vars, mem_vars, fx_vars, ag_vars, vl_vars, gr_vars, mj_vars, api_vars, db_vars, ar_vars, tx_vars>>

\* Lines 589-622: pdflatex runs on base.tex.  It leaves a .pdf or none, and
\* pdf_generated is set only if no pass raised and the file is there.
Pdflatex(i) ==
    /\ rs_req[i].pc = "written"
    /\ \E wrote \in BOOLEAN : \E raised \in BOOLEAN :
           /\ rs_files' = rs_files
                 \cup {Use(i, "compile", TexPath(rs_req[i].base))}
                 \cup (IF wrote THEN {Use(i, "write", PdfPath(rs_req[i].base))} ELSE {})
           /\ rs_req' = [rs_req EXCEPT ![i] = [@ EXCEPT !.pc = "compiled",
                                                        !.pdf_generated = wrote /\ ~raised]]
    /\ UNCHANGED rs_drawn
    /\ UNCHANGED <<llm_vars, mem_vars, fx_vars, ag_vars, vl_vars, gr_vars, mj_vars, api_vars, db_vars, ar_vars, tx_vars>>

\* Lines 637-666: without a PDF the simple one is written, or fitz fails.
FallbackPdf(i) ==
    /\ rs_req[i].pc = "compiled"
    /\ ~rs_req[i].pdf_generated
    /\ \/ rs_files' = rs_files \cup {Use(i, "write", FallbackPath(rs_req[i].base)),
                                     Use(i, "return", FallbackPath(rs_req[i].base))}
       \/ UNCHANGED rs_files
    /\ rs_req' = [rs_req EXCEPT ![i].pc = "returned"]
    /\ UNCHANGED rs_drawn
    /\ UNCHANGED <<llm_vars, mem_vars, fx_vars, ag_vars, vl_vars, gr_vars, mj_vars, api_vars, db_vars, ar_vars, tx_vars>>

\* Lines 627-636, 696-702: with a PDF the reply and pdf_path name base.pdf.
ReturnPdf(i) ==
    /\ rs_req[i].pc = "compiled"
    /\ rs_req[i].pdf_generated
    /\ rs_files' = rs_files \cup {Use(i, "return", PdfPath(rs_req[i].base))}
    /\ rs_req' = [rs_req EXCEPT ![i].pc = "returned"]
    /\ UNCHANGED rs_drawn
    /\ UNCHANGED <<llm_vars, mem_vars, fx_vars, ag_vars, vl_vars, gr_vars, mj_vars, api_vars, db_vars, ar_vars, tx_vars>>

FilesNext ==
    \/ \E i \in Restructures : NameFiles(i)
    \/ \E i \in Restructures : WriteTex(i)
    \/ \E i \in Restructures : Pdflatex(i)
    \/ \E i \in Restructures : FallbackPdf(i)
    \/ \E i \in Restructures : ReturnPdf(i)

FilesUnused == FilesInit

vars == <<llm_vars, mem_vars, fx_vars, ag_vars, vl_vars, gr_vars, mj_vars, api_vars, db_vars, ar_vars, tx_vars, rs_vars>>

\* The parts of the state a specification leaves alone.
LLMIdle ==
    /\ llm_phase = "idle"
    /\ llm_in = [prompt |-> [kw |-> {}, tailkw |-> {}, long |-> FALSE], timeout |-> 30,
                 env |-> [p1 |-> [kind |-> "exc", content |-> <<>>, dur |-> 0],
                          hfkey |-> FALSE, p2 |-> NoSecondary]]
    /\ llm_out = NoResult

AgentUnused == AgentInit

FixUnused == fx_phase = "idle" /\ fx_in = <<>> /\ fx_once = <<>> /\ fx_twice = <<>>

MemUnused == MemIdle /\ MemAfter(0) /\ mem_cfg = [workers |-> {}, limit |-> 0, prefill |-> 0]

LLMSpecInit == LLMInit /\ MemUnused /\ FixUnused /\ AgentUnused /\ ValidUnused /\ GraphUnused /\ JobsUnused /\ ApiUnused /\ DbUnused /\ ResumeUnused /\ MarkupUnused /\ FilesUnused

\* One safe_llm_invoke call under every provider behaviour.
LLMSpec == LLMSpecInit /\ [][LLMInvoke]_vars

MemSpecInit == MemInit /\ LLMIdle /\ FixUnused /\ AgentUnused /\ ValidUnused /\ GraphUnused /\ JobsUnused /\ ApiUnused /\ DbUnused /\ ResumeUnused /\ MarkupUnused /\ FilesUnused

\* One caller using a ThreadSafeMemoryStore.
MemSpec == MemSpecInit /\ [][MemNext]_vars

ConcSpecInit == ConcInit /\ LLMIdle /\ FixUnused /\ AgentUnused /\ ValidUnused /\ GraphUnused /\ JobsUnused /\ ApiUnused /\ DbUnused /\ ResumeUnused /\ MarkupUnused /\ FilesUnused

\* Worker threads sharing a ThreadSafeMemoryStore.
ConcSpec == ConcSpecInit /\ [][MemNext]_vars

FixSpecInit == FixInit /\ LLMIdle /\ MemUnused /\ AgentUnused /\ ValidUnused /\ GraphUnused /\ JobsUnused /\ ApiUnused /\ DbUnused /\ ResumeUnused /\ MarkupUnused /\ FilesUnused

\* fix_latex_syntax on every markup up to the length bound.
FixSpec == FixSpecInit /\ [][FixApply]_vars

ValidSpecInit == ValidInit /\ LLMIdle /\ MemUnused /\ FixUnused /\ AgentUnused /\ GraphUnused /\ JobsUnused /\ ApiUnused /\ DbUnused /\ ResumeUnused /\ MarkupUnused /\ FilesUnused

\* is_valid_latex on every argument put together from the pieces.
ValidSpec == ValidSpecInit /\ [][ValidApply]_vars

GraphSpecInit == GraphInit /\ LLMIdle /\ MemUnused /\ FixUnused /\ AgentUnused /\ ValidUnused /\ JobsUnused /\ ApiUnused /\ DbUnused /\ ResumeUnused /\ MarkupUnused /\ FilesUnused

\* One run of the compiled graph for every message.
GraphSpec == GraphSpecInit /\ [][GraphNext]_vars

JobsSpecInit ==
    JobsInit /\ LLMIdle /\ MemUnused /\ FixUnused /\ AgentUnused /\ ValidUnused /\ GraphUnused /\ ApiUnused /\ DbUnused /\ ResumeUnused /\ MarkupUnused /\ FilesUnused

\* match_jobs on every list of postings up to the bound.
JobsSpec == JobsSpecInit /\ [][JobsApply]_vars

ApiSpecInit == ApiInit /\ LLMIdle /\ MemUnused /\ FixUnused /\ AgentUnused /\ ValidUnused /\ GraphUnused /\ JobsUnused /\ DbUnused /\ ResumeUnused /\ MarkupUnused /\ FilesUnused

\* Requests to the two AI endpoints, the agent calls taking any time.
ApiSpec == ApiSpecInit /\ [][ApiNext]_vars

DbSpecInit == DbInit /\ LLMIdle /\ MemUnused /\ FixUnused /\ AgentUnused /\ ValidUnused /\ GraphUnused /\ JobsUnused /\ ApiUnused /\ ResumeUnused /\ MarkupUnused /\ FilesUnused

\* Requests to /api/jobs/save by the users.
SavedSpec == DbSpecInit /\ [][SaveJob]_vars

\* Requests to the chat-history endpoints by the users.
ChatSpec == DbSpecInit /\ [][ChatNext]_vars

ResumeSpecInit == ResumeInit /\ LLMIdle /\ MemUnused /\ FixUnused /\ AgentUnused /\ ValidUnused /\ GraphUnused /\ JobsUnused /\ ApiUnused /\ DbUnused /\ MarkupUnused /\ FilesUnused

\* analyze_resume on every text up to the bound.
ResumeSpec == ResumeSpecInit /\ [][ResumeApply]_vars

MarkupSpecInit == MarkupInit /\ LLMIdle /\ MemUnused /\ FixUnused /\ AgentUnused /\ ValidUnused /\ GraphUnused /\ JobsUnused /\ ApiUnused /\ DbUnused /\ ResumeUnused /\ FilesUnused

\* The Restructure branch's markup steps on every generated markup up to the bound.
MarkupSpec == MarkupSpecInit /\ [][MarkupWrite]_vars

FilesSpecInit == FilesInit /\ LLMIdle /\ MemUnused /\ FixUnused /\ AgentUnused /\ ValidUnused /\ GraphUnused /\ JobsUnused /\ ApiUnused /\ DbUnused /\ ResumeUnused /\ MarkupUnused

\* Restructure requests running side by side on the files of GEN_DIR.
FilesSpec == FilesSpecInit /\ [][FilesNext]_vars

AgentSpecInit == AgentInit /\ LLMIdle /\ MemUnused /\ FixUnused /\ ValidUnused /\ GraphUnused /\ JobsUnused /\ ApiUnused /\ DbUnused /\ ResumeUnused /\ MarkupUnused /\ FilesUnused

\* Calls of the three agents, the gateway behaving in every way it can.
AgentSpec == AgentSpecInit /\ [][AgentNext]_vars

-----------------------------------------------------------------------------
(* The gateway's contract (LLMSpec) *)

\* Slack allowed for the local processing around the requests, in seconds.
LocalSlack == 1

Tokens == Char \cup {f[1] : f \in FallbackTexts}

Returned == llm_phase = "returned"

\* C1: whatever the two providers do (a readable or an unreadable 200, another
\* status, a transport error or timeout, no credentials), safe_llm_invoke
\* returns a string and no exception leaves it.
C1_NeverRaises == Returned => (~llm_out.raised /\ llm_out.text \in Seq(Tokens))

\* The call came back although the first provider's body was unreadable and
\* the second request failed in transport.
C1_Witness ==
    /\ Returned
    /\ llm_in.env.p1.kind = "malformed"
    /\ llm_in.env.hfkey
    /\ llm_in.env.p2.kind = "exc"
    /\ ~llm_out.raised
    /\ llm_out.source = "fallback"

\* C2: the string safe_llm_invoke returns is never empty, also when a provider
\* answers 200 with empty generated text.
C2_NonEmpty == Returned => (~llm_out.raised /\ llm_out.text # <<>>)

PrimaryUsable(env) == env.p1.kind = "ok" /\ Strip(env.p1.content) # <<>>

SecondaryUsable(env) == env.hfkey /\ env.p2.kind = "ok" /\ Strip(env.p2.body) # <<>>

\* C3: the primary's text is returned only when the primary answered 200 with
\* non-empty text; otherwise the secondary, when configured, is asked; the
\* local fallback is returned only after every configured provider failed.
C3_FallbackOrder ==
    Returned =>
        /\ llm_out.source = "primary" => PrimaryUsable(llm_in.env)
        /\ (~PrimaryUsable(llm_in.env) /\ llm_in.env.hfkey) =>
                llm_out.tried = <<"primary", "secondary">>
        /\ llm_out.source = "fallback" =>
                (~PrimaryUsable(llm_in.env) /\ ~SecondaryUsable(llm_in.env))

\* C4: the call returns within its timeout plus the local slack, also when
\* the primary uses up its timeout and a configured secondary is slow too.
C4_WithinTimeout == Returned => llm_out.elapsed <= llm_in.timeout + LocalSlack

-----------------------------------------------------------------------------
(* The memory store's contract (MemSpec, ConcSpec) *)

AllIdle == \A w \in Workers : pc[w] = "idle"

\* C5: after any sequence of append calls, each thread id's list is the last
\* min(n, 10) entries appended to it, in append order.
C5_FifoCap == AllIdle => \A t \in ThreadIds : ListOf(t) = Last(issued[t], MaxMem)

\* Eleven entries went to t1 and the list is the ten newest of them.
C5_Witness ==
    /\ AllIdle
    /\ Len(issued["t1"]) = MaxMem + 1
    /\ Len(ListOf("t1")) = MaxMem
    /\ ListOf("t1")[1] = issued["t1"][2]
    /\ ListOf("t1")[MaxMem] = issued["t1"][MaxMem + 1]

Occurrences(s, v) == Cardinality({i \in 1..Len(s) : s[i] = v})

\* C6: once concurrent appends to an initially empty thread id (at most 10 of
\* them) have all returned, its list holds each of their entries exactly
\* once; and no list ever holds an entry appended to another thread id.
C6_NoLostUpdate ==
    /\ (AllIdle /\ mem_cfg.prefill = 0) =>
            \A t \in ThreadIds :
                Len(issued[t]) <= MaxMem =>
                    /\ Len(ListOf(t)) = Len(issued[t])
                    /\ \A i \in 1..Len(issued[t]) : Occurrences(ListOf(t), issued[t][i]) = 1
    /\ \A t \in ThreadIds :
            \A j \in 1..Len(ListOf(t)) : Occurrences(issued[t], ListOf(t)[j]) = 1

\* Three appends to t1 have returned; they overlapped, since the entries were
\* inserted in another order than the calls were made.
C6_Witness ==
    /\ AllIdle
    /\ mem_cfg.prefill = 0
    /\ Len(issued["t1"]) = 3
    /\ Len(ListOf("t1")) = 3
    /\ log["t1"] # issued["t1"]

\* C7: nobody ever sees a list of more than 10 entries, not even a caller
\* reading a list it got from get while another thread runs append on it.
C7_CapObserved == rd.seen <= MaxMem

-----------------------------------------------------------------------------
(* The agents' contract (AgentSpec) *)

\* A learning_agent call with a valid question has returned.
LearningCompleted ==
    /\ ag_phase = "returned"
    /\ ag_last.agent = "learning"
    /\ ag_last.prompts # <<>>

\* The exchanges learning_agent built on thread t before the last call's own.
EarlierExchanges(t) == SubSeq(ag_done[t], 1, Len(ag_done[t]) - 1)

\* C8: after learning_agent completes a call on thread T with a valid
\* question, the exchange is the newest entry of T in the memory store and the
\* LLM reply is what is returned; the prompt of the call held, as context, the
\* exchanges of the earlier calls on T (the last two) and of no other thread.
C8_ExchangeStored ==
    LearningCompleted =>
        LET T == ag_last.thread
            reply == LearningReply(ag_last.gateway[1])
        IN  /\ ag_mem[T] # <<>>
            /\ ag_mem[T][Len(ag_mem[T])] = Exchange(ag_last.message.text, reply)
            /\ ag_out.reply = Strip(reply)
            /\ ag_last.prompts[1].context =
                   IF EarlierExchanges(T) # <<>> THEN Last(EarlierExchanges(T), 2)
                   ELSE <<NO_CONTEXT>>

RestructureReturned ==
    /\ ag_phase = "returned"
    /\ ag_last.agent = "career"
    /\ ~ag_out.raised
    /\ ag_out.intent = "restructure"

\* The markup the call's LLM answer was, as generate_latex_with_ai returned it.
LlmMarkup == generate_latex_with_ai(ag_last.gateway[2])

\* What lines 536-565 make of a markup before it is written.
Finished(markup) == EnsureHyperref(EscapeSpecials(WrapDocument(markup)))

\* C12: in the Restructure branch the LLM output goes through fix and is
\* checked with isValid only then: the markup of the result is the fixed LLM
\* output whenever that is valid (so an output whose only defect is
\* over-escaped braces is kept), and the template otherwise.
C12_FixThenValidate ==
    RestructureReturned =>
        ag_out.latex_code =
            IF is_valid_latex(fix_latex_syntax(LlmMarkup))
            THEN Finished(fix_latex_syntax(LlmMarkup))
            ELSE Finished(fix_latex_syntax(get_fallback_latex_template))

\* A career_agent call has returned.
CareerReturned == ag_phase = "returned" /\ ag_last.agent = "career"

\* The resume text of the call: missing, None, empty or whitespace only.
NoResumeGiven ==
    \/ ag_last.resume_text.kind # "str"
    \/ IsBlank(ag_last.resume_text.text)

\* C13: career_agent called with missing, empty or whitespace-only resume
\* text returns, whatever the message, the reply that asks for the resume
\* text, with no document reference, and without calling the gateway, writing
\* a file or starting pdflatex or the fallback generator.
C13_ResumeGuard ==
    (CareerReturned /\ NoResumeGiven) =>
        /\ ~ag_out.raised
        /\ ag_out.reply = CAREER_NEED_RESUME
        /\ ag_out.pdf_path = "none"
        /\ ag_last.prompts = <<>>
        /\ ag_last.gateway = <<>>
        /\ ag_out.effects = NoEffects

\* A call with a whitespace-only resume text and a message was turned away.
C13_Witness ==
    /\ CareerReturned
    /\ ag_last.resume_text = Str(<<SP>>)
    /\ ag_last.message = Str(<<"resume">>)
    /\ ag_out.reply = CAREER_NEED_RESUME

\* The call took the Restructure branch and wrote, or tried to write, the .tex file.
RestructureTaken ==
    /\ CareerReturned
    /\ Len(ag_last.gateway) = 2
    /\ SelectsRestructure(ClassifierAnswer(ag_last.gateway[1]))

\* line 529: preview_url names <base>.pdf.
PreviewFile == "pdf"

\* C14: a typeset PDF counts as produced only if it exists and is larger than
\* 1000 bytes: when both passes return but the PDF is missing or at most 1000
\* bytes, the compile is treated as failed, the fallback generator runs, and
\* the undersized file is not handed to the caller as the result.
C14_UndersizedRejected ==
    (/\ RestructureTaken
     /\ ag_last.fs.write_ok
     /\ PassesReturned(ag_last.fs)
     /\ ag_last.fs.pdf \in {"missing", "small"}) =>
        /\ ag_out.effects.fallbacks = 1
        /\ ~(ag_last.fs.pdf = "small" /\ ag_out.pdf_path = "preview_url")

\* C15: whenever the result of the Restructure branch carries a document
\* reference, the file it names exists in the output directory when the call
\* returns, also when pdflatex is missing or fails and the fallback generator
\* made <base>_simple.pdf.
C15_ReferenceExists ==
    (RestructureTaken /\ ag_out.pdf_path # "none") =>
        /\ ag_out.pdf_path = "preview_url"
        /\ PreviewFile \in ag_out.effects.files

\* C16: once the .tex file is written a pdflatex pass is started, and a
\* missing executable, a pass over its 60 s and a non-zero exit status are
\* each recovered from: career_agent does not raise, the fallback generator
\* is then run exactly once, and the result is tagged 'restructure'.
C16_CompileRecovers ==
    (RestructureTaken /\ ag_last.fs.write_ok) =>
        /\ ag_out.effects.passes >= 1
        /\ ag_last.fs.run # "exit0" =>
              /\ ~ag_out.raised
              /\ ag_out.effects.fallbacks = 1
              /\ ag_out.intent = "restructure"

\* C17: if writing the .tex file fails, career_agent returns the failure reply
\* with no document reference, and neither writes again nor starts pdflatex
\* nor runs the fallback generator.
C17_WriteFailure ==
    (RestructureTaken /\ ~ag_last.fs.write_ok) =>
        /\ ~ag_out.raised
        /\ ag_out.reply = WRITE_FAILED
        /\ ag_out.pdf_path = "none"
        /\ ag_out.effects.writes = 1
        /\ ag_out.effects.passes = 0
        /\ ag_out.effects.fallbacks = 0

\* The write failed where pdflatex and the fallback would both have worked.
C17_Witness ==
    /\ RestructureTaken
    /\ ~ag_last.fs.write_ok
    /\ ag_last.fs.run = "exit0"
    /\ ag_last.fs.pdf = "big"
    /\ ag_last.fs.fitz_ok
    /\ ag_out.reply = WRITE_FAILED

-----------------------------------------------------------------------------
(* The validator's contract (ValidSpec) *)

\* The marker stands somewhere in the text, in capitals or in small letters.
HasMarker(t, marker) ==
    \E i \in 1..Len(t) :
        /\ i + Len(marker) - 1 <= Len(t)
        /\ \A k \in 1..Len(marker) :
              t[i + k - 1] = marker[k] \/ t[i + k - 1] = Capitals(marker)[k]

\* A backslash stands immediately before a brace.
HasEscapedBrace(t) == \E i \in 1..(Len(t) - 1) : t[i] = BS /\ t[i + 1] \in {LB, RB}

\* C11: is_valid_latex(m) is true if and only if m contains, in capitals or in
\* small letters, all three markers (document class, \begin{document},
\* \end{document}) and no backslash immediately followed by a brace; empty and
\* None input is invalid.
C11_ValidIff ==
    vl_phase = "done" =>
        (vl_out <=> /\ vl_in.kind = "str"
                    /\ vl_in.text # <<>>
                    /\ HasMarker(vl_in.text, DOCCLASS)
                    /\ HasMarker(vl_in.text, BEGIN_DOC)
                    /\ HasMarker(vl_in.text, END_DOC)
                    /\ ~HasEscapedBrace(vl_in.text))

\* A document whose class declaration is in capitals was judged valid.
C11_Witness ==
    /\ vl_phase = "done"
    /\ vl_out
    /\ vl_in.text = Capitals(DOCCLASS) \o BEGIN_DOC \o <<"x">> \o END_DOC

-----------------------------------------------------------------------------
(* The router's and the graph's contract (GraphSpec) *)

\* An intent chosen by comparing how often the words of each list occur.
ByCount(text) ==
    LET career == Cardinality({i \in 1..Len(text) : text[i] \in CareerWords})
        learning == Cardinality({i \in 1..Len(text) : text[i] \in LearningWords})
    IN  IF career > learning THEN "career"
        ELSE IF learning > career THEN "learning"
        ELSE "chat"

\* C18: router compares keyword counts: 'career' only when the career words
\* outnumber the learning words, 'learning' only when the learning words
\* outnumber the career words, 'chat' on ties and when there is none of
\* either, so a message with one of each is 'chat'.
C18_RouterByCount ==
    gr_path # <<>> => gr_intent = ByCount(Lower(OrEmpty(gr_msg)))

\* C19: for every incoming message, a missing or empty one included, the graph
\* runs the router, then exactly one agent node, the one the router's intent
\* names (any intent other than 'career' and 'learning' leads to chat), and
\* then ends: no run executes two agent nodes or comes back to the router,
\* and a run that has not ended can always take its next step.
C19_OneAgentThenEnd ==
    /\ \A i \in Intents \ {"career", "learning"} : route(i) = "chat"
    /\ Len(gr_path) <= 2
    /\ Len(gr_path) >= 1 => gr_path[1] = "router"
    /\ Len(gr_path) = 2 =>
          /\ gr_path[2] \in AgentNodes
          /\ gr_path[2] = IF gr_intent \in {"career", "learning"} THEN gr_intent ELSE "chat"
          /\ gr_node = "end"
    /\ gr_node = "end" => Len(gr_path) = 2
    /\ gr_node \in {"entry", "router"} \cup AgentNodes => ENABLED GraphNext

\* The run for a state without a message went through the router and chat and ended.
C19_Witness ==
    /\ gr_node = "end"
    /\ gr_msg = MissingVal
    /\ gr_path = <<"router", "chat">>

-----------------------------------------------------------------------------
(* The job ranking's contract (JobsSpec) *)

\* The overlap of a posting with the skills of the call.
Overlap(post) ==
    Cardinality({k \in mj_in.skills :
        \E i \in 1..Len(post.requirements) : LowerSkill(post.requirements[i]) = k})

\* C20: match_jobs returns a permutation of the input postings in order of
\* non-increasing overlap score (the size of the intersection of the skills
\* with the posting's lower-cased requirements); postings of equal score keep
\* their input order, and each returned posting's match_score is its score.
C20_StableRanking ==
    mj_phase = "done" =>
        /\ Len(mj_out) = Len(mj_in.job_posts)
        /\ \A t \in 1..Len(mj_in.job_posts) :
              Cardinality({i \in 1..Len(mj_out) : mj_out[i].title = t}) = 1
        /\ \A i \in 1..Len(mj_out) :
              /\ mj_out[i].title \in 1..Len(mj_in.job_posts)
              /\ mj_out[i].has_req = mj_in.job_posts[mj_out[i].title].has_req
              /\ mj_out[i].requirements = mj_in.job_posts[mj_out[i].title].requirements
              /\ mj_out[i].match_score = Overlap(mj_out[i])
        /\ \A i, j \in 1..Len(mj_out) :
              i < j => \/ Overlap(mj_out[i]) > Overlap(mj_out[j])
                       \/ /\ Overlap(mj_out[i]) = Overlap(mj_out[j])
                          /\ mj_out[i].title < mj_out[j].title

\* Three postings, the last of score 2 and the first two tied at 1: the last
\* came first and the tied ones kept their order.
C20_Witness ==
    /\ mj_phase = "done"
    /\ Len(mj_out) = 3
    /\ <<mj_out[1].title, mj_out[2].title, mj_out[3].title>> = <<3, 1, 2>>
    /\ <<mj_out[1].match_score, mj_out[2].match_score, mj_out[3].match_score>> = <<2, 1, 1>>

\* The call was given resume text that is not blank.
ResumeGiven ==
    /\ CareerReturned
    /\ ag_last.resume_text.kind = "str" /\ ~IsBlank(ag_last.resume_text.text)

\* The classifier's answer holds the word, in small letters or capitals.
SaysRestructure(text) ==
    \E i \in 1..Len(text) : text[i] \in {"restructure", "Restructure", "restructured"}

\* C23: with non-empty resume text career_agent makes one classifier call and
\* then runs exactly one branch: Restructure if and only if the lower-cased
\* answer contains "restructure", Analyze otherwise; the intent of the result
\* is the branch taken.
C23_OneBranch ==
    ResumeGiven =>
        /\ ~ag_out.raised
        /\ Len(ag_last.gateway) = 2 /\ Len(ag_last.prompts) = 2
        /\ ag_out.intent = (IF SaysRestructure(ag_last.gateway[1].text)
                            THEN "restructure" ELSE "analyze")
        /\ ag_out.intent = "restructure" <=> ag_out.effects.writes = 1
        /\ ag_out.intent = "analyze" <=>
              (ag_out.effects = NoEffects /\ ag_out.latex_code = <<>>)

\* The classifier answered "Restructure" and the Restructure branch ran.
C23_Witness ==
    /\ ResumeGiven
    /\ ag_last.gateway[1].text = <<"Restructure">>
    /\ ag_out.intent = "restructure"
    /\ ag_out.effects.writes = 1

\* C26: with every provider failing, so that the gateway answers from
\* enhanced_fallback_response, a message asking for a rewrite of the resume
\* still takes career_agent to the Restructure branch.
C26_DegradedRestructure ==
    (/\ ResumeGiven
     /\ ag_last.message = Str(<<"rewrite", "resume">>)
     /\ ag_last.gateway[1].degraded)
    => ag_out.intent = "restructure"

-----------------------------------------------------------------------------
(* The endpoints' contract (ApiSpec) *)

Requests == 1..MaxRequests

\* C21: every agent call made for an HTTP request, of the career endpoint as
\* of the learning endpoint, runs on the worker pool and is waited for with a
\* timeout: no caller waits longer than the budget, it is answered with the
\* timeout response instead.
C21_PoolAndTimeout ==
    \A i \in Requests :
        rq[i].call # "none" =>
            /\ rq[i].pool
            /\ rq[i].caller = "waiting" => rq[i].age <= WaitTicks

\* C27: at every moment at most 3 learning_agent calls run on the pool,
\* abandoned ones (caller answered 504) included; an abandoned call keeps its
\* worker until it finishes, and a queued call starts only when fewer than 3
\* calls are running.
C27_ThreeWorkers ==
    [][/\ Cardinality({i \in Requests : rq'[i].pool /\ rq'[i].call = "running"}) <= 3
       /\ \A i \in Requests :
             /\ (rq[i].pool /\ rq[i].call = "running" /\ rq[i].caller = "504")
                    => rq'[i].call \in {"running", "done"}
             /\ (rq[i].call = "queued" /\ rq'[i].call = "running")
                    => Cardinality({j \in Requests :
                           rq[j].pool /\ rq[j].call = "running"}) < 3]_vars

\* Three calls hold the workers, one of them abandoned by its caller, and a
\* fourth request waits in the queue.
C27_Witness ==
    /\ Cardinality({i \in Requests : rq[i].pool /\ rq[i].call = "running"}) = 3
    /\ \E i \in Requests : rq[i].call = "running" /\ rq[i].caller = "504"
    /\ \E i \in Requests : rq[i].call = "queued" /\ rq[i].caller = "waiting"

\* C30: a career request without usable resume text (omitted, empty or
\* whitespace-only) is answered 400 and career_agent is not called.
C30_NoResumeRejected ==
    \A i \in Requests :
        (rq[i].endpoint = "career"
            /\ (rq[i].resume_text.kind # "str" \/ IsBlank(rq[i].resume_text.text)))
        => (rq[i].caller = "400" /\ rq[i].call = "none")

-----------------------------------------------------------------------------
(* The database endpoints' contract (SavedSpec, ChatSpec) *)

\* The rows of a chat table that belong to other users than the caller.
RowsOfOthers(rows, user) == {r \in rows : r.user_id # UserId(user)}

\* C28: deleting or clearing chat history for user u, with any chat_id (the
\* id of another user's row included), leaves every chat-history row of every
\* other user as it was.
C28_OthersUntouched ==
    [][db_last'.op \in {"delete", "clear"} =>
          \A t \in ChatTables :
              RowsOfOthers(db_chats'[t], db_last'.user) = RowsOfOthers(db_chats[t], db_last'.user)]_vars

\* u1 has asked to delete the row of u2 by its id, and the row is there.
C28_Witness ==
    /\ db_last.op = "delete" /\ db_last.user = "u1" /\ db_last.status = 200
    /\ \E t \in ChatTables : \E r \in db_chats[t] :
          /\ db_last.arg = ChatArg(t, r.id)
          /\ r.user_id = UserId("u2")

\* C29: saved_jobs never holds two rows for one (user, job) pair; saving a
\* job the user has saved already leaves the table as it was and the response
\* message reports a failed save, not success.
C29_OneRowPerPair ==
    [][/\ \A r1, r2 \in db_saved' :
             (r1.user_id = r2.user_id /\ r1.job_id = r2.job_id) => r1 = r2
       /\ (/\ db_last'.op = "save_job" /\ db_last'.status = 200
           /\ \E r \in db_saved : r.user_id = UserId(db_last'.user)
                                  /\ r.job_id = db_last'.arg.val)
          => (db_saved' = db_saved /\ db_last'.msg = "Job save failed")]_vars

\* A user's second save of a job, sent as a string, was answered as failed.
C29_Witness ==
    /\ db_last.op = "save_job" /\ db_last.msg = "Job save failed"
    /\ db_last.arg.kind = "str"
    /\ Cardinality(db_saved) = 2
    /\ \E r \in db_saved : r.user_id = UserId(db_last.user) /\ r.job_id = db_last.arg.val

-----------------------------------------------------------------------------
(* The written markup's contract (MarkupSpec) *)

\* The built-in template is valid, and so is the fixed template.
TemplateValid ==
    /\ is_valid_latex(get_fallback_latex_template)
    /\ is_valid_latex(fix_latex_syntax(get_fallback_latex_template))

\* C25: the markup written to the .tex file satisfies is_valid_latex whatever
\* was generated, and the template and the fixed template are valid.
C25_WrittenValid ==
    /\ tx_phase = "done" => is_valid_latex(tx_out)
    /\ TemplateValid

\* A valid generated markup that was wrapped and whose "&" was escaped.
C25_Witness ==
    /\ tx_phase = "done"
    /\ is_valid_latex(tx_in)
    /\ ~StartsWith(Strip(tx_in), DOCCLASS)
    /\ Contains(tx_in, <<"&">>)
    /\ Contains(tx_out, <<BS, "&">>)

-----------------------------------------------------------------------------
(* The generated files' contract (FilesSpec) *)

\* C22: concurrently executing Restructure requests never write, compile or
\* return the same file: every file a request uses carries the request's own
\* token, and no two requests have the same token.
C22_DisjointFiles ==
    /\ \A f \in rs_files : \A g \in rs_files : f.path = g.path => f.by = g.by
    /\ \A f \in rs_files : f.path.base = rs_req[f.by].base
    /\ \A i \in Restructures : \A j \in Restructures :
           (i # j /\ rs_req[i].base # 0) => rs_req[i].base # rs_req[j].base

\* Two requests under way at once, each with its .tex, .pdf and _simple.pdf.
C22_Witness ==
    \E i \in Restructures : \E j \in Restructures :
        /\ i # j
        /\ rs_req[i].pc = "compiled"
        /\ rs_req[j].pc = "returned"
        /\ \A k \in {i, j} :
               /\ Use(k, "write", TexPath(rs_req[k].base)) \in rs_files
               /\ Use(k, "write", PdfPath(rs_req[k].base)) \in rs_files
        /\ Use(j, "write", FallbackPath(rs_req[j].base)) \in rs_files
        /\ \E f \in rs_files : f.by = i /\ \E g \in rs_files : g.by = j /\ g.op = "return"

-----------------------------------------------------------------------------
(* The skills heuristic's contract (ResumeSpec) *)

\* The skill occurs in the text as a whole word, in any case.
Mentions(text, skill) ==
    \E i \in 1..Len(text) :
        text[i] = skill \/ (skill = "python" /\ text[i] = "Python")
                        \/ (skill = "sql" /\ text[i] = "SQL")

\* C24: analyze_resume returns as skills the vocabulary entries that occur as
\* whole words in the lower-cased text, in sorted order (a resume mentioning
\* python and sql yields both), and suggests SQL exactly when sql was not
\* detected.
C24_WholeWords ==
    ar_phase = "done" =>
        /\ ar_out.skills = SelectSeq(SkillsDb, LAMBDA s : Mentions(ar_text, s))
        /\ (\E i \in 1..Len(ar_out.suggestions) : ar_out.suggestions[i] = "add_sql")
              <=> ~(\E i \in 1..Len(ar_out.skills) : ar_out.skills[i] = "sql")

-----------------------------------------------------------------------------
(* The sanitizer's contract (FixSpec) *)

\* C10: fix_latex_syntax is idempotent, fix(fix(x)) = fix(x) for every x, also
\* when a brace follows two or more backslashes.
C10_Idempotent == fx_phase = "done" => fx_twice = fx_once

====
